---------------------------- MODULE Spec2Model ----------------------------
(***************************************************************************)
(* The interview session orchestrator of excel_interviewer:                *)
(* ConversationManager (services/conversation_manager.py) driving          *)
(* QuestionBankService (services/question_bank.py), ExcelEvaluator         *)
(* (services/excel_evaluator.py), LLMService (services/llm_service.py),    *)
(* FeedbackEngine (services/feedback_engine.py) and StateManager           *)
(* (utils/state_manager.py).                                               *)
(*                                                                         *)
(* Units.  The five sub-scores are whole points (0..100 once clamped).     *)
(* Every value the code rounds to two decimals (overall_score,             *)
(* confidence_score, the aggregator's overall_score) is kept in            *)
(* hundredths of a point, so 89.00 is 8900.  A comparison "mean >= 85" of  *)
(* the code is written without division: sum >= 85 * count.                *)
(*                                                                         *)
(* One interview id is modelled.  Every coroutine of the event loop that   *)
(* serves a request for it is a client slot in Clients; a slot moves from  *)
(* one suspension point (a real await) of its handler to the next in one   *)
(* step, because asyncio runs a coroutine without interruption between     *)
(* two awaits.                                                             *)
(***************************************************************************)
EXTENDS Integers, Sequences, FiniteSets, TLC

VARIABLES
    is_redis_available, \* StateManager.is_redis_available
    interview_state,    \* the value kept under "interview:<id>": <<>> or <<state>>
    questions,          \* QuestionBankService.questions, by question id
    evaluation_cache,   \* ExcelEvaluator.evaluation_cache: a set of [key, value]
    interview,          \* the Interview handed to start_interview: <<>> or <<it>>
    calls,              \* per client slot: the coroutine serving its request
    result,             \* what the last call that finished returned
    selected,           \* the last get_adaptive_question call made for the session
    setex_failures,     \* the Redis writes that have failed so far
    outstanding,        \* the requests the session's clients keep in flight
    time_limit_passed,  \* more than time_limit_minutes have gone by since start_time
    probe,              \* a function called on its own: its call and what it returned
    provider_up         \* LLMService has a client for its provider

vars == <<is_redis_available, interview_state, questions, evaluation_cache,
          interview, calls, result, selected, setex_failures,
          outstanding, time_limit_passed, probe, provider_up>>

----------------------------------------------------------------------------
(* Bounds of the exploration *)

\* answers the clients submit to a session whose calls are made one at a time
MaxAnswers == 6
\* answers a session takes when its calls may overlap or one of its Redis
\* writes has failed
MaxDisturbedAnswers == 2
\* Redis writes that fail
MaxSetexFailures == 1
\* answers a session takes when it is followed to its end (the provider is
\* down, or the interview has the default max_questions): the question limit
\* and one more
MaxDownAnswers == 16

----------------------------------------------------------------------------
(* Sequences *)

RECURSIVE Sum(_)
Sum(s) == IF s = <<>> THEN 0 ELSE Head(s) + Sum(Tail(s))

Range(s) == {s[i] : i \in DOMAIN s}

\* s[-n:]
LastN(s, n) == IF Len(s) <= n THEN s ELSE SubSeq(s, Len(s) - n + 1, Len(s))

Max(a, b) == IF a >= b THEN a ELSE b
Min(a, b) == IF a <= b THEN a ELSE b

NoSeqDuplicates(s) == \A i, j \in DOMAIN s : s[i] = s[j] => i = j

\* round(num / den, 0) of Python 3 on an exact quotient: half goes to even
RoundHalfEven(num, den) ==
    LET q == num \div den
        r == num % den
    IN  IF 2 * r < den THEN q
        ELSE IF 2 * r > den THEN q + 1
        ELSE IF q % 2 = 0 THEN q ELSE q + 1

----------------------------------------------------------------------------
(* Models/question.py, Models/interview.py: enumerations *)

QuestionDifficulty == {"basic", "intermediate", "advanced"}
SkillLevel == {"beginner", "intermediate", "advanced"}
difficulty_order == <<"basic", "intermediate", "advanced">>
DifficultyIndex(d) == CHOOSE i \in DOMAIN difficulty_order : difficulty_order[i] = d

\* Interview.max_questions: Field(default=15, ge=5, le=30)
MinMaxQuestions == 5
DefaultMaxQuestions == 15
LimitMaxQuestions == 30
\* the values of max_questions the model starts interviews with
MaxQuestionsChoices == {MinMaxQuestions}


----------------------------------------------------------------------------
(* services/excel_evaluator.py: the local analysis of an answer.           *)
(* An answer is represented by what _perform_local_analysis reads off its  *)
(* text: the word count and the indicators.  text names the answer (it is  *)
(* what the cache key hashes); is_text is FALSE for a candidate_response   *)
(* that is not a str, on which the analysis raises.                        *)

TerseAnswer ==
    [text |-> "terse", is_text |-> TRUE, word_count |-> 5,
     mentions_specific_functions |-> FALSE, mentions_cell_references |-> FALSE,
     mentions_ranges |-> FALSE, mentions_steps |-> FALSE, keyword_dense |-> FALSE,
     uses_explanation |-> FALSE, provides_examples |-> FALSE,
     structured_response |-> FALSE, completeness_hits |-> 0]

ThoroughAnswer ==
    [text |-> "thorough", is_text |-> TRUE, word_count |-> 60,
     mentions_specific_functions |-> TRUE, mentions_cell_references |-> TRUE,
     mentions_ranges |-> TRUE, mentions_steps |-> TRUE, keyword_dense |-> TRUE,
     uses_explanation |-> TRUE, provides_examples |-> TRUE,
     structured_response |-> TRUE, completeness_hits |-> 4]

\* some twenty-five words in two sentences that name no function, cell or
\* range and use none of the indicator words: the analysis adjusts nothing
PlainAnswer ==
    [text |-> "plain", is_text |-> TRUE, word_count |-> 25,
     mentions_specific_functions |-> FALSE, mentions_cell_references |-> FALSE,
     mentions_ranges |-> FALSE, mentions_steps |-> FALSE, keyword_dense |-> FALSE,
     uses_explanation |-> FALSE, provides_examples |-> FALSE,
     structured_response |-> FALSE, completeness_hits |-> 0]

NonTextAnswer ==
    [text |-> "nontext", is_text |-> FALSE, word_count |-> 0,
     mentions_specific_functions |-> FALSE, mentions_cell_references |-> FALSE,
     mentions_ranges |-> FALSE, mentions_steps |-> FALSE, keyword_dense |-> FALSE,
     uses_explanation |-> FALSE, provides_examples |-> FALSE,
     structured_response |-> FALSE, completeness_hits |-> 0]

\* communication_indicators["appropriate_length"]
appropriate_length(analysis) ==
    20 <= analysis.word_count /\ analysis.word_count <= 200

B2I(b) == IF b THEN 1 ELSE 0

_calculate_score_adjustments(analysis) ==
    [technical_accuracy |->
          5 * B2I(analysis.mentions_specific_functions)
        + 3 * B2I(analysis.mentions_cell_references)
        + 2 * B2I(analysis.mentions_ranges),
     communication_clarity |->
          4 * B2I(analysis.uses_explanation)
        + 3 * B2I(analysis.provides_examples)
        + 2 * B2I(analysis.structured_response)
        - 5 * B2I(~appropriate_length(analysis)),
     problem_solving_approach |->
          4 * B2I(analysis.mentions_steps) + 2 * B2I(analysis.keyword_dense),
     completeness |-> 2 * analysis.completeness_hits,
     efficiency |-> 0]

\* in hundredths: round((f1 + f2) / 2, 2) with f1 of 0.9, 0.7, 0.5 and f2 of 0.8, 0.6
_calculate_confidence(analysis) ==
    LET wc == analysis.word_count
        length_factor == IF 30 <= wc /\ wc <= 150 THEN 90
                         ELSE IF 15 <= wc /\ wc <= 200 THEN 70 ELSE 50
        content_factor == IF analysis.mentions_specific_functions THEN 80 ELSE 60
    IN  (length_factor + content_factor) \div 2

score_fields == <<"technical_accuracy", "communication_clarity",
                  "problem_solving_approach", "completeness", "efficiency">>

SubScoreSum(e) ==
    e.technical_accuracy + e.communication_clarity + e.problem_solving_approach
    + e.completeness + e.efficiency

\* the float nan stands among the whole points as a number of its own
NaN == -1000000

\* round(sum(scores) / len(scores), 2) over the five sub-scores, in
\* hundredths; a sum with a nan in it is nan
MeanOverall(e) ==
    IF NaN \in {e.technical_accuracy, e.communication_clarity,
                e.problem_solving_approach, e.completeness, e.efficiency}
    THEN NaN
    ELSE (100 * SubScoreSum(e)) \div Len(score_fields)

\* Models/evaluation.py, EvaluationCriteria.calculate_overall_score, in
\* hundredths: round(0.35 ta + 0.15 cc + 0.25 ps + 0.15 co + 0.10 ef, 2)
calculate_overall_score(e) ==
    35 * e.technical_accuracy + 15 * e.communication_clarity
    + 25 * e.problem_solving_approach + 15 * e.completeness + 10 * e.efficiency

----------------------------------------------------------------------------
(* services/llm_service.py: evaluate_excel_response.                       *)
(* A provider reply is what generate_response and json.loads deliver:      *)
(*   kind "ok"        a JSON object with every required field             *)
(*   kind "error"     the provider call raised (no client, timeout, rate)  *)
(*   kind "malformed" the text is no JSON (json.JSONDecodeError)           *)
(*   kind "missing"   a required field is absent (ValueError)              *)
(* A score value is [numeric, v]: numeric FALSE is a JSON string or null.  *)

Num(n) == [numeric |-> TRUE, v |-> n]
NotANumber == [numeric |-> FALSE, v |-> 0]

\* an int beyond the range of float (a JSON integer of more than 308
\* digits, which json.loads reads as an int) stands among the whole points as
\* a number of its own: float(score) raises OverflowError on it
HugeInt == 2000000

\* the clamping loop of lines 241-244 raises on a score that is such an int
ClampRaises(reply) ==
    \E f \in {"technical_accuracy", "communication_clarity",
               "problem_solving_approach", "completeness", "efficiency",
               "overall_score"} :
        reply[f].numeric /\ reply[f].v = HugeInt

\* the float nan, which json.loads reads from the token NaN: a number for
\* isinstance, neither below 0 nor above 100, and so left as it is
ClampProviderScore(score) ==
    IF ~score.numeric \/ (score.v # NaN /\ (score.v < 0 \/ score.v > 100))
    THEN Max(0, Min(100, IF score.numeric THEN score.v ELSE 50))
    ELSE score.v

llm_fallback_evaluation(difficulty) ==
    LET base_score == CASE difficulty = "basic" -> 65
                        [] difficulty = "intermediate" -> 55
                        [] difficulty = "advanced" -> 45
                        [] OTHER -> 55
    IN  [technical_accuracy |-> base_score,
         communication_clarity |-> base_score,
         problem_solving_approach |-> base_score,
         completeness |-> base_score,
         efficiency |-> base_score,
         overall_score |-> 100 * base_score,
         feedback |-> "llm_fallback",
         next_difficulty_level |-> difficulty,
         confidence_score |-> -1,
         evaluation_method |-> "unset"]

evaluate_excel_response(reply, difficulty) ==
    IF reply.kind = "ok" /\ ~ClampRaises(reply)
    THEN LET clamped ==
                 [technical_accuracy |-> ClampProviderScore(reply.technical_accuracy),
                  communication_clarity |-> ClampProviderScore(reply.communication_clarity),
                  problem_solving_approach |-> ClampProviderScore(reply.problem_solving_approach),
                  completeness |-> ClampProviderScore(reply.completeness),
                  efficiency |-> ClampProviderScore(reply.efficiency)]
         IN  [technical_accuracy |-> clamped.technical_accuracy,
              communication_clarity |-> clamped.communication_clarity,
              problem_solving_approach |-> clamped.problem_solving_approach,
              completeness |-> clamped.completeness,
              efficiency |-> clamped.efficiency,
              overall_score |-> MeanOverall(clamped),
              feedback |-> "provider",
              next_difficulty_level |-> reply.next_difficulty_level,
              confidence_score |-> -1,
              evaluation_method |-> "unset"]
    ELSE llm_fallback_evaluation(difficulty)

----------------------------------------------------------------------------
(* services/excel_evaluator.py: the blend and the evaluator's own fallback *)

\* a blend that adds the adjustment and leaves the sum as it is
ApplyAdjustmentUnclamped(original_score, adjustment) ==
    original_score + Min(15, Max(-15, adjustment))

\* max(0, min(100, adjusted_score)); min(100, nan) is 100, since nan < 100
\* is false and min keeps its first argument
ApplyAdjustment(original_score, adjustment) ==
    IF original_score = NaN
    THEN Max(0, 100)
    ELSE Max(0, Min(100, original_score + Min(15, Max(-15, adjustment))))

_enhance_evaluation(ai_evaluation, analysis) ==
    LET adjustments == _calculate_score_adjustments(analysis)
        adjusted ==
            [technical_accuracy |->
                 ApplyAdjustment(ai_evaluation.technical_accuracy, adjustments.technical_accuracy),
             communication_clarity |->
                 ApplyAdjustment(ai_evaluation.communication_clarity, adjustments.communication_clarity),
             problem_solving_approach |->
                 ApplyAdjustment(ai_evaluation.problem_solving_approach, adjustments.problem_solving_approach),
             completeness |->
                 ApplyAdjustment(ai_evaluation.completeness, adjustments.completeness),
             efficiency |->
                 ApplyAdjustment(ai_evaluation.efficiency, adjustments.efficiency)]
    IN  [ai_evaluation EXCEPT
             !.technical_accuracy = adjusted.technical_accuracy,
             !.communication_clarity = adjusted.communication_clarity,
             !.problem_solving_approach = adjusted.problem_solving_approach,
             !.completeness = adjusted.completeness,
             !.efficiency = adjusted.efficiency,
             !.overall_score = MeanOverall(adjusted),
             !.confidence_score = _calculate_confidence(analysis)]

evaluator_fallback_evaluation(difficulty) ==
    LET base_score == CASE difficulty = "basic" -> 60
                        [] difficulty = "intermediate" -> 50
                        [] difficulty = "advanced" -> 40
                        [] OTHER -> 50
    IN  [technical_accuracy |-> base_score,
         communication_clarity |-> base_score - 5,
         problem_solving_approach |-> base_score,
         completeness |-> base_score - 10,
         efficiency |-> base_score - 5,
         overall_score |-> 100 * (base_score - 5),
         feedback |-> "evaluator_fallback",
         next_difficulty_level |-> difficulty,
         confidence_score |-> 30,
         evaluation_method |-> "fallback"]

\* f"{hash(question)}_{hash(response)}_{difficulty}"
_generate_cache_key(question, response, difficulty) ==
    <<question, response.text, difficulty>>

CachedUnder(cache, key) == {c \in cache : c.key = key}

\* an evaluator that keeps no evaluation
CachePutNothing(cache, key, value) == cache

\* self.evaluation_cache[cache_key] = enhanced_evaluation.copy()
CachePut(cache, key, value) ==
    {c \in cache : c.key # key} \cup {[key |-> key, value |-> value]}

\* the part of evaluate_response before the provider call: "cached" with the
\* evaluation on a cache hit, "fallback" when the local analysis raises,
\* "call" when the provider has to be asked
EvaluateBeforeProvider(cache, question, response, difficulty) ==
    LET hits == CachedUnder(cache, _generate_cache_key(question, response, difficulty))
    IN  IF hits # {}
        THEN [how |-> "cached",
              evaluation |-> [(CHOOSE c \in hits : TRUE).value
                                  EXCEPT !.evaluation_method = "cached"]]
        ELSE IF ~response.is_text
        THEN [how |-> "fallback", evaluation |-> evaluator_fallback_evaluation(difficulty)]
        ELSE [how |-> "call", evaluation |-> evaluator_fallback_evaluation(difficulty)]

\* the part of evaluate_response after the provider call returned reply
EvaluateAfterProvider(reply, response, difficulty) ==
    _enhance_evaluation(evaluate_excel_response(reply, difficulty), response)

----------------------------------------------------------------------------
(* services/question_bank.py, Models/question.py: the question bank.       *)
(* A question id is <<difficulty, n>>, as "basic_001" is in the code.      *)
(* average_score and pass_rate are the numbers the code computes, kept as   *)
(* exact fractions [num, den] in lowest terms (the rounding of the floats    *)
(* that hold them is not modelled); <<>> is None.  average_score is in       *)
(* hundredths of a point like every overall_score, pass_rate in percent.     *)
(* Response times are not modelled (every call passes the default            *)
(* response_time_seconds = 0).                                               *)

RECURSIVE GCD(_, _)
GCD(a, b) == IF b = 0 THEN a ELSE GCD(b, a % b)

\* the fraction n / d (n >= 0, d > 0) in lowest terms
Frac(n, d) == LET g == GCD(n, d) IN [num |-> n \div g, den |-> d \div g]

\* _load_questions: basic_001..005, inter_001..005, adv_001..005
QuestionsPerDifficulty == 5
QuestionIds == QuestionDifficulty \X (1 .. QuestionsPerDifficulty)
NoQuestion == <<>>

_load_questions ==
    [q \in QuestionIds |->
        [difficulty |-> q[1], is_active |-> TRUE,
         times_used |-> 0, average_score |-> <<>>, pass_rate |-> <<>>]]

\* passing_threshold = 60.0
passing_threshold == 6000

\* update_usage_stats in which the running average weighs the old average
\* with the new count
update_usage_stats_new_count(question, score) ==
    LET times_used == question.times_used + 1
        a == question.average_score
        r == question.pass_rate
    IN  [question EXCEPT
            !.times_used = times_used,
            !.average_score =
                IF a = <<>> THEN <<Frac(score, 1)>>
                ELSE <<Frac(a[1].num * times_used + score * a[1].den,
                            a[1].den * times_used)>>,
            !.pass_rate =
                IF score >= passing_threshold
                THEN IF r = <<>> THEN <<Frac(100, 1)>>
                     ELSE <<Frac(r[1].num * (times_used - 1) + 100 * r[1].den,
                                 r[1].den * times_used)>>
                ELSE IF r = <<>> THEN <<Frac(0, 1)>>
                     ELSE <<Frac(r[1].num * (times_used - 1),
                                 r[1].den * times_used)>>]

\* update_usage_stats in which a failing score leaves pass_rate as it was
update_usage_stats_keep_rate(question, score) ==
    LET times_used == question.times_used + 1
        a == question.average_score
        r == question.pass_rate
    IN  [question EXCEPT
            !.times_used = times_used,
            !.average_score =
                IF a = <<>> THEN <<Frac(score, 1)>>
                ELSE <<Frac(a[1].num * (times_used - 1) + score * a[1].den,
                            a[1].den * times_used)>>,
            !.pass_rate =
                IF score >= passing_threshold
                THEN IF r = <<>> THEN <<Frac(100, 1)>>
                     ELSE <<Frac(r[1].num * (times_used - 1) + 100 * r[1].den,
                                 r[1].den * times_used)>>
                ELSE IF r = <<>> THEN <<Frac(0, 1)>> ELSE r]

\* ExcelQuestion.update_usage_stats, lines 155-189
update_usage_stats(question, score) ==
    LET times_used == question.times_used + 1
        a == question.average_score
        r == question.pass_rate
    IN  [question EXCEPT
            !.times_used = times_used,
            \* (average_score * (times_used - 1) + score) / times_used
            !.average_score =
                IF a = <<>> THEN <<Frac(score, 1)>>
                ELSE <<Frac(a[1].num * (times_used - 1) + score * a[1].den,
                            a[1].den * times_used)>>,
            \* previous_passes = pass_rate / 100 * (times_used - 1), then
            \* (previous_passes [+ 1]) / times_used * 100
            !.pass_rate =
                IF score >= passing_threshold
                THEN IF r = <<>> THEN <<Frac(100, 1)>>
                     ELSE <<Frac(r[1].num * (times_used - 1) + 100 * r[1].den,
                                 r[1].den * times_used)>>
                ELSE IF r = <<>> THEN <<Frac(0, 1)>>
                     ELSE <<Frac(r[1].num * (times_used - 1),
                                 r[1].den * times_used)>>]

\* QuestionBankService.update_question_stats, lines 355-360
update_question_stats(bank, question_id, score) ==
    IF question_id \in DOMAIN bank
    THEN [bank EXCEPT ![question_id] = update_usage_stats(@, score)]
    ELSE bank

\* variant of get_random_question that does not look at exclude_ids
get_random_question_any(bank, difficulty, exclude_ids) ==
    {q \in DOMAIN bank : bank[q].is_active /\ bank[q].difficulty = difficulty}

\* a get_random_question that prefers the questions no session has used
get_random_question_unused(bank, difficulty, exclude_ids) ==
    {q \in DOMAIN bank :
        /\ bank[q].is_active
        /\ bank[q].difficulty = difficulty
        /\ bank[q].times_used = 0
        /\ q \notin Range(exclude_ids)}

\* get_random_question: the questions random.choice draws from ({} is None)
get_random_question(bank, difficulty, exclude_ids) ==
    {q \in DOMAIN bank :
        /\ bank[q].is_active
        /\ bank[q].difficulty = difficulty
        /\ q \notin Range(exclude_ids)}

\* get_adaptive_question, lines 276-296: the target tier, or "ValueError"
\* where QuestionDifficulty(current_difficulty) raises
target_difficulty(current_difficulty, previous_scores) ==
    LET recent_scores == LastN(previous_scores, 3)
        n == Len(recent_scores)
        total == Sum(recent_scores)
        parsed == IF current_difficulty \in QuestionDifficulty
                  THEN current_difficulty ELSE "ValueError"
    IN  IF previous_scores # <<>>
        THEN IF total >= 8500 * n THEN "advanced"
             ELSE IF total >= 7000 * n THEN "intermediate"
             ELSE IF total >= 5000 * n THEN parsed
             ELSE IF parsed = "ValueError" THEN "ValueError"
             ELSE difficulty_order[Max(1, DifficultyIndex(parsed) - 1)]
        ELSE parsed

\* a search that tries the harder tier first
harder_first_offsets == <<1, -1, 2, -2>>

\* get_adaptive_question, lines 305-319: the tiers tried after the target
fallback_offsets == <<-1, 1, -2, 2>>

RECURSIVE FirstFallback(_, _, _, _)
FirstFallback(bank, current_index, exclude_ids, k) ==
    IF k > Len(fallback_offsets) THEN {}
    ELSE LET new_index == current_index + fallback_offsets[k]
             found == IF 1 <= new_index /\ new_index <= Len(difficulty_order)
                      THEN get_random_question(bank, difficulty_order[new_index], exclude_ids)
                      ELSE {}
         IN  IF found # {} THEN found
             ELSE FirstFallback(bank, current_index, exclude_ids, k + 1)

\* get_adaptive_question: the questions it may return ({} is None)
get_adaptive_question(bank, current_difficulty, previous_scores, asked_question_ids) ==
    LET target == target_difficulty(current_difficulty, previous_scores)
    IN  IF target = "ValueError" THEN {}
        ELSE LET question == get_random_question(bank, target, asked_question_ids)
             IN  IF question # {} THEN question
                 ELSE FirstFallback(bank, DifficultyIndex(target), asked_question_ids, 1)

----------------------------------------------------------------------------
(* services/conversation_manager.py: the pure parts *)

\* the hard-coded max_questions of _should_continue_interview
max_questions == 15

\* _get_next_question: an exception of the bank is caught and gives None
_get_next_question(bank, state) ==
    get_adaptive_question(bank, state.current_difficulty, state.scores,
                          state.questions_asked)

\* a session that stays at the difficulty it has
keep_difficulty(scores, current_difficulty) == current_difficulty

_adjust_difficulty(scores, current_difficulty) ==
    IF scores = <<>> THEN current_difficulty
    ELSE LET recent_scores == LastN(scores, 3)
             n == Len(recent_scores)
             total == Sum(recent_scores)
         IN  IF total >= 8500 * n /\ current_difficulty # "advanced"
             THEN CASE current_difficulty = "basic" -> "intermediate"
                    [] current_difficulty = "intermediate" -> "advanced"
                    [] OTHER -> current_difficulty
             ELSE IF total < 4000 * n /\ current_difficulty # "basic"
             THEN CASE current_difficulty = "advanced" -> "intermediate"
                    [] current_difficulty = "intermediate" -> "basic"
                    [] OTHER -> current_difficulty
             ELSE current_difficulty

\* variant of _should_continue_interview without the early exit
_should_continue_to_limit(state) == Len(state.responses) < max_questions

_should_continue_interview(state) ==
    LET questions_asked == Len(state.responses)
        scores == state.scores
    IN  IF /\ questions_asked < max_questions
           /\ Len(scores) >= 5
           /\ Sum(scores) < 2500 * Len(scores)
        THEN FALSE
        ELSE questions_asked < max_questions

\* start_interview, lines 28-41
initial_state(iv) ==
    [status |-> "in_progress",
     skill_level |-> iv.skill_level,
     current_question_index |-> 0,
     questions_asked |-> <<>>,
     responses |-> <<>>,
     scores |-> <<>>,
     current_difficulty |-> iv.skill_level,
     conversation_history |-> <<>>,
     current_question |-> NoQuestion,
     final_assessment |-> <<>>]

\* a record of the response that leaves the conversation history alone
record_without_history(state, current_question, candidate_response, evaluation) ==
    [state EXCEPT
        !.responses = Append(@, [question_id |-> current_question,
                                 candidate_response |-> candidate_response.text,
                                 evaluation |-> evaluation]),
        !.scores = Append(@, evaluation.overall_score),
        !.current_question_index = @ + 1]

\* process_response, lines 99-118
RecordResponse(state, current_question, candidate_response, evaluation) ==
    [state EXCEPT
        !.responses = Append(@, [question_id |-> current_question,
                                 candidate_response |-> candidate_response.text,
                                 evaluation |-> evaluation]),
        !.scores = Append(@, evaluation.overall_score),
        !.current_question_index = @ + 1,
        !.conversation_history = @ \o
            << <<"assistant", current_question>>,
               <<"user", candidate_response.text>>,
               <<"system", evaluation.overall_score>> >>]

\* process_response, lines 139-140, and start_interview, lines 53-54
AttachQuestion(state, question) ==
    [state EXCEPT !.current_question = question,
                  !.questions_asked = Append(@, question)]

----------------------------------------------------------------------------
(* services/feedback_engine.py *)

\* a verdict whose bands begin just above the thresholds
skill_level_above(overall_score) ==
    IF overall_score > 9000 THEN "expert"
    ELSE IF overall_score > 8000 THEN "advanced"
    ELSE IF overall_score > 6500 THEN "intermediate"
    ELSE IF overall_score > 4500 THEN "basic"
    ELSE IF overall_score > 2500 THEN "beginner"
    ELSE "insufficient_data"

_determine_skill_level(overall_score) ==
    IF overall_score >= 9000 THEN "expert"
    ELSE IF overall_score >= 8000 THEN "advanced"
    ELSE IF overall_score >= 6500 THEN "intermediate"
    ELSE IF overall_score >= 4500 THEN "basic"
    ELSE IF overall_score >= 2500 THEN "beginner"
    ELSE "insufficient_data"

ResponseScores(responses) ==
    [i \in DOMAIN responses |-> responses[i].evaluation.overall_score]

\* _calculate_performance_statistics: overall_score = round(mean(all_scores), 2)
StatsOverallScore(responses) ==
    RoundHalfEven(Sum(ResponseScores(responses)), Len(responses))

\* a consistency of 100 - stdev(all_scores), without the limit of 25
consistency_uncapped(responses, c) ==
    LET xs == [i \in DOMAIN responses |->
                  responses[i].evaluation.overall_score \div 20]
        n == Len(xs)
        sq == [i \in DOMAIN xs |-> xs[i] * xs[i]]
        spread == n * Sum(sq) - Sum(xs) * Sum(xs)
        limit == 5 * (100 - c)
    IN  \/ n <= 1 /\ 0 <= 100 - c
        \/ n > 1 /\ 0 <= 100 - c /\ spread <= limit * limit * n * (n - 1)

\* consistency = 100 - min(stdev(all_scores), 25) compared with a threshold c
\* (whole points): min(stdev, 25) <= 100 - c, the stdev compared through its
\* square.  Scores are counted in fifths of a point to keep the squares small.
ConsistencyAtLeast(responses, c) ==
    LET xs == [i \in DOMAIN responses |->
                  responses[i].evaluation.overall_score \div 20]
        n == Len(xs)
        sq == [i \in DOMAIN xs |-> xs[i] * xs[i]]
        \* n * (n - 1) * variance, in fifths squared
        spread == n * Sum(sq) - Sum(xs) * Sum(xs)
        limit == 5 * (100 - c)
    IN  \/ 25 <= 100 - c
        \/ n <= 1 /\ 0 <= 100 - c
        \/ n > 1 /\ 0 <= 100 - c /\ spread <= limit * limit * n * (n - 1)

\* performance_trend = round(mean(second_half) - mean(first_half), 2) > 5,
\* when len >= 3: the rounded value is above 5.00 when the difference is
\* above 5.005
TrendAbove5(responses) ==
    LET all_scores == ResponseScores(responses)
        n == Len(all_scores)
        h == n \div 2
        first_half == SubSeq(all_scores, 1, h)
        second_half == SubSeq(all_scores, h + 1, n)
    IN  /\ n >= 3
        /\ 2 * (Sum(second_half) * h - Sum(first_half) * (n - h))
               > 1001 * h * (n - h)

\* The stats dict as _determine_hire_recommendation reads it: consistency
\* through the three comparisons made on it, performance_trend through the
\* one.  _calculate_performance_statistics fills it from the responses.
ConsistencyThresholds == {70, 60, 50}

_calculate_performance_statistics(responses) ==
    [consistency_at_least |->
         [c \in ConsistencyThresholds |-> ConsistencyAtLeast(responses, c)],
     performance_trend_above_5 |-> TrendAbove5(responses)]

\* a recommendation made from the score alone
hire_by_score_alone(overall_score, stats) ==
    IF overall_score >= 8500 THEN "strong_hire"
    ELSE IF overall_score >= 7500 THEN "hire"
    ELSE IF overall_score >= 6000 THEN "conditional_hire"
    ELSE IF overall_score >= 4000 THEN "no_hire"
    ELSE "strong_no_hire"

_determine_hire_recommendation(overall_score, stats) ==
    IF overall_score >= 8500 /\ stats.consistency_at_least[70] THEN "strong_hire"
    ELSE IF overall_score >= 7500 /\ stats.consistency_at_least[60] THEN "hire"
    ELSE IF /\ overall_score >= 6000
            /\ (stats.consistency_at_least[50] \/ stats.performance_trend_above_5)
         THEN "conditional_hire"
    ELSE IF overall_score >= 4000 THEN "no_hire"
    ELSE "strong_no_hire"

\* a default assessment that rates the candidate a beginner
default_assessment_beginner ==
    [overall_score |-> 0,
     skill_level_assessment |-> "beginner",
     hire_recommendation |-> "no_hire",
     detailed_feedback |-> "could_not_be_completed",
     total_questions |-> 0]

_get_default_assessment ==
    [overall_score |-> 0,
     skill_level_assessment |-> "insufficient_data",
     hire_recommendation |-> "no_hire",
     detailed_feedback |-> "could_not_be_completed",
     total_questions |-> 0]

\* generate_final_assessment, lines 30-41: what is computed from the
\* responses before the narrative call is awaited
AssessmentBeforeNarrative(responses) ==
    IF responses = <<>> THEN _get_default_assessment
    ELSE LET overall_score == StatsOverallScore(responses)
         IN  [overall_score |-> overall_score,
              skill_level_assessment |-> _determine_skill_level(overall_score),
              hire_recommendation |->
                  _determine_hire_recommendation(overall_score,
                      _calculate_performance_statistics(responses)),
              detailed_feedback |-> "pending",
              total_questions |-> 0]

\* a feedback engine whose stand-in narrative is blank
blank_feedback(overall_score) == ""

\* _get_default_feedback: the score-band template
_get_default_feedback(overall_score) ==
    IF overall_score >= 8000 THEN "template_strong"
    ELSE IF overall_score >= 6000 THEN "template_solid"
    ELSE "template_basic"

\* generate_final_assessment, lines 44-97: _generate_detailed_feedback
\* returns the narrative, or the template when the call raises (lines
\* 249-295), and the assessment is compiled from the responses as they are
\* after the await
AssessmentAfterNarrative(before, narrative, responses) ==
    [before EXCEPT
        !.detailed_feedback =
            CASE narrative = "text" -> "narrative"
              [] narrative = "blank" -> ""
              [] OTHER -> _get_default_feedback(before.overall_score),
        !.total_questions = Len(responses)]

\* generate_final_assessment called with a list nothing else changes: an
\* empty list returns at line 31, before any await
generate_final_assessment(responses, narrative) ==
    IF responses = <<>> THEN _get_default_assessment
    ELSE AssessmentAfterNarrative(AssessmentBeforeNarrative(responses),
                                  narrative, responses)

----------------------------------------------------------------------------
(* The client slots and what a call returns *)

Clients == {"c1", "c2"}

\* the answers the candidate submits and the replies the provider gives
Answers == {TerseAnswer}

UniformReply(n) ==
    [kind |-> "ok",
     technical_accuracy |-> Num(n), communication_clarity |-> Num(n),
     problem_solving_approach |-> Num(n), completeness |-> Num(n),
     efficiency |-> Num(n), overall_score |-> Num(n),
     next_difficulty_level |-> "intermediate"]

ProviderError == [UniformReply(0) EXCEPT !.kind = "error"]

ProviderReplies == {UniformReply(25), UniformReply(100), ProviderError}

\* the narrative text generate_response gives _generate_detailed_feedback:
\* a text, a blank text, or an exception
NarrativeReplies == {"text", "blank", "raise"}

IdleCall ==
    [op |-> "none", pc |-> "idle", state |-> <<>>,
     current_question |-> NoQuestion, answer |-> <<>>, difficulty |-> "none",
     status_at_read |-> "none", assessment |-> <<>>,
     ret |-> [status |-> "none", message |-> "none", question |-> NoQuestion]]

NoResult ==
    [op |-> "none", status |-> "none", message |-> "none", question |-> NoQuestion]

Returned(op, status, message, question) ==
    [op |-> op, status |-> status, message |-> message, question |-> question]

NoSelection ==
    [by |-> "none", prior_difficulty |-> "none", current_difficulty |-> "none",
     scores |-> <<>>, target |-> "none", found |-> FALSE]

Stored == interview_state # <<>>
StoredState == interview_state[1]

\* the dict a coroutine calls state: with the memory store it is the stored
\* object itself (get_interview_state returns stored_data["data"]), with
\* Redis it is the coroutine's own copy made by json.loads
StateOf(p) == IF is_redis_available THEN calls[p].state[1] ELSE StoredState

Idle(p) == calls[p].pc = "idle"
OthersIdle(p) == \A o \in Clients \ {p} : Idle(o)

\* The slots are interchangeable, so a request takes the first free one: "c2"
\* serves a request only while "c1" is suspended in another, which happens
\* when the session's clients keep two requests outstanding.
MayBegin(p) ==
    /\ Idle(p)
    /\ (p = "c1") = OthersIdle(p)
    /\ OthersIdle(p) \/ outstanding = 2

\* the answers evaluated so far (each one has passed update_question_stats)
\* and the answers under evaluation
RECURSIVE TimesUsed(_, _)
TimesUsed(bank, ids) ==
    IF ids = {} THEN 0
    ELSE LET q == CHOOSE x \in ids : TRUE
         IN  bank[q].times_used + TimesUsed(bank, ids \ {q})

AnswersTaken ==
    TimesUsed(questions, QuestionIds)
        + Cardinality({p \in Clients : calls[p].pc = "evaluating"})

\* random.choice draws any of the candidates.  The candidates that nothing in
\* the system has touched yet (never asked in a state that is stored or held
\* by a coroutine, never answered, not just returned) differ in their number
\* alone, so of these only the first of each tier is drawn.
Touched(q) ==
    \/ questions[q].times_used > 0
    \/ Stored /\ q \in Range(StoredState.questions_asked)
    \/ \E p \in Clients :
           /\ calls[p].state # <<>>
           /\ q \in Range(calls[p].state[1].questions_asked)
    \/ q = result.question

Drawn(candidates) ==
    {q \in candidates :
        \/ Touched(q)
        \/ \A o \in candidates : (o[1] = q[1] /\ ~Touched(o)) => o[2] >= q[2]}

\* the session's calls are made one at a time, no Redis write has failed and
\* the time limit has not run out
Undisturbed == outstanding = 1 /\ setex_failures = 0 /\ ~time_limit_passed

\* a Redis write succeeds, or raises inside set_interview_state; the writes
\* that have failed are counted.  A write fails only early in a session
\* whose calls are made one at a time.
SetexOutcome(ok) ==
    IF ok THEN UNCHANGED setex_failures
    ELSE /\ setex_failures < MaxSetexFailures
         /\ AnswersTaken <= MaxDisturbedAnswers
         /\ outstanding = 1
         /\ setex_failures' = setex_failures + 1

\* what the call of slot p returns to its caller
Return(p, c, ret) ==
    /\ calls' = [calls EXCEPT ![p] = IdleCall]
    /\ result' = Returned(c.op, ret.status, ret.message, ret.question)

Ret(status, message, question) ==
    [status |-> status, message |-> message, question |-> question]

\* the coroutine c of slot p, having brought its state dict to s, reaches an
\* await that suspends it at pc.  With the memory store the stored object is
\* that dict, so the store shows s at once; with Redis s is the coroutine's own
\* copy and the store is untouched.
Suspend(p, c, s, pc) ==
    /\ calls' = [calls EXCEPT ![p] =
           [c EXCEPT !.pc = pc,
                     !.state = IF is_redis_available THEN <<s>> ELSE <<>>]]
    /\ interview_state' = IF is_redis_available THEN interview_state ELSE <<s>>
    /\ UNCHANGED result

\* the coroutine c of slot p, having brought its state dict to s, calls
\* set_interview_state(s) and then returns ret.  The memory store assigns
\* without an await and the call ends in the same step; with Redis the
\* coroutine is suspended in setex until StoreWrite.
SetStateAndReturn(p, c, s, ret) ==
    IF is_redis_available
    THEN Suspend(p, [c EXCEPT !.ret = ret], s, "storing")
    ELSE /\ interview_state' = <<s>>
         /\ Return(p, c, ret)

----------------------------------------------------------------------------
(* ConversationManager.start_interview *)

\* lines 50-72, after the first set_interview_state
StartSelect(p, c, s0) ==
    LET first_question == _get_next_question(questions, s0)
    IN  /\ selected' = [by |-> "start_interview",
                        prior_difficulty |-> s0.current_difficulty,
                        current_difficulty |-> s0.current_difficulty,
                        scores |-> s0.scores,
                        target |-> target_difficulty(s0.current_difficulty, s0.scores),
                        found |-> first_question # {}]
        /\ IF first_question # {}
           THEN \E q \in Drawn(first_question) :
                    SetStateAndReturn(p, c, AttachQuestion(s0, q),
                                      Ret("success", "welcome", q))
           ELSE /\ interview_state' =
                       IF is_redis_available THEN interview_state ELSE <<s0>>
                /\ Return(p, c, Ret("error", "Failed to start interview", NoQuestion))

\* lines 26-44; the routes create each interview id once, so one start
StartInterview(p, iv) ==
    /\ MayBegin(p)
    /\ interview = <<>>
    /\ interview' = <<iv>>
    /\ UNCHANGED <<provider_up, probe, time_limit_passed, outstanding, is_redis_available, setex_failures, questions, evaluation_cache>>
    /\ LET c == [IdleCall EXCEPT !.op = "start_interview"]
           s0 == initial_state(iv)
       IN  IF is_redis_available
           THEN /\ Suspend(p, c, s0, "storing_initial")
                /\ UNCHANGED selected
           ELSE StartSelect(p, c, s0)

\* Redis: the first setex takes effect, or fails and set_interview_state
\* returns False, which start_interview does not look at
StoreInitial(p, ok) ==
    /\ calls[p].pc = "storing_initial"
    /\ SetexOutcome(ok)
    /\ interview_state' = IF ok THEN calls[p].state ELSE interview_state
    /\ calls' = [calls EXCEPT ![p] = [@ EXCEPT !.pc = "resume_start"]]
    /\ UNCHANGED <<provider_up, probe, time_limit_passed, outstanding, is_redis_available, questions, evaluation_cache, interview,
                   result, selected>>

\* Redis: start_interview resumes after its first set_interview_state
ResumeStart(p) ==
    /\ calls[p].pc = "resume_start"
    /\ StartSelect(p, calls[p], calls[p].state[1])
    /\ UNCHANGED <<provider_up, probe, time_limit_passed, outstanding, is_redis_available, setex_failures, questions, evaluation_cache, interview>>

\* Redis: the setex of a call's last set_interview_state takes effect, or
\* fails and set_interview_state returns False; the call then returns
StoreWrite(p, ok) ==
    /\ calls[p].pc = "storing"
    /\ SetexOutcome(ok)
    /\ interview_state' = IF ok THEN calls[p].state ELSE interview_state
    /\ Return(p, calls[p], calls[p].ret)
    /\ UNCHANGED <<provider_up, probe, time_limit_passed, outstanding, is_redis_available, questions, evaluation_cache, interview,
                   selected>>

----------------------------------------------------------------------------
(* ConversationManager.process_response *)

\* an _end_interview in which something raises once the state is marked
\* completed: its except clause answers with an error (lines 260-266)
_end_interview_raising(p, c, st) ==
    /\ interview_state' = IF is_redis_available THEN interview_state
                          ELSE <<[st EXCEPT !.status = "completed"]>>
    /\ Return(p, c, Ret("error", "Failed to complete interview assessment.", NoQuestion))

\* _end_interview, lines 236-242: the state is marked completed and
\* generate_final_assessment computes the statistics, then awaits the narrative
_end_interview(p, c, st) ==
    LET completed == [st EXCEPT !.status = "completed"]
        assessment == AssessmentBeforeNarrative(completed.responses)
    IN  Suspend(p, [c EXCEPT !.assessment = <<assessment>>], completed, "assessing")

\* process_response, lines 99-159, from the evaluation to the next await
AfterEvaluation(p, c, st, evaluation) ==
    LET recorded == RecordResponse(st, c.current_question, c.answer[1], evaluation)
        new_difficulty == _adjust_difficulty(recorded.scores, recorded.current_difficulty)
        adjusted == [recorded EXCEPT !.current_difficulty = new_difficulty]
        next_question == _get_next_question(questions, adjusted)
    IN  /\ questions' = update_question_stats(questions, c.current_question,
                                              evaluation.overall_score)
        /\ IF _should_continue_interview(adjusted)
           THEN /\ selected' = [by |-> "process_response",
                                prior_difficulty |-> st.current_difficulty,
                                current_difficulty |-> new_difficulty,
                                scores |-> adjusted.scores,
                                target |-> target_difficulty(new_difficulty, adjusted.scores),
                                found |-> next_question # {}]
                /\ IF next_question # {}
                   THEN \E q \in Drawn(next_question) :
                            SetStateAndReturn(p, c, AttachQuestion(adjusted, q),
                                              Ret("continue", "none", q))
                   ELSE _end_interview(p, c, adjusted)
           ELSE /\ UNCHANGED selected
                /\ _end_interview(p, c, adjusted)

\* how many answers a session is followed for: to its end and one answer
\* beyond it when the provider is down or the interview was created with the
\* default max_questions, otherwise by the workload
FollowedAnswers ==
    IF ~provider_up THEN MaxDownAnswers
    ELSE IF interview # <<>> /\ interview[1].max_questions = DefaultMaxQuestions
    THEN MaxDownAnswers
    ELSE IF Undisturbed THEN MaxAnswers ELSE MaxDisturbedAnswers

\* process_response, lines 81-97: the state is read and evaluate_response is
\* entered; a cache hit and the evaluator's fallback return without an await,
\* otherwise the coroutine is suspended in the provider call.
\* hit FALSE: get_interview_state returns None (no such key, the TTL has run
\* out, or the Redis read raised).
SubmitAnswer(p, answer, hit) ==
    /\ MayBegin(p)
    /\ AnswersTaken < FollowedAnswers
    /\ UNCHANGED <<provider_up, probe, time_limit_passed, outstanding, is_redis_available, setex_failures, interview>>
    /\ IF ~Stored \/ ~hit
       THEN /\ Return(p, [IdleCall EXCEPT !.op = "process_response"],
                      Ret("error", "Interview session not found", NoQuestion))
            /\ UNCHANGED <<interview_state, questions, evaluation_cache, selected>>
       ELSE LET st == StoredState
                c == [IdleCall EXCEPT !.op = "process_response",
                                      !.current_question = st.current_question,
                                      !.answer = <<answer>>,
                                      !.difficulty = st.current_difficulty,
                                      !.status_at_read = st.status]
                before == EvaluateBeforeProvider(evaluation_cache, st.current_question,
                                                 answer, st.current_difficulty)
            IN  IF st.current_question = NoQuestion
                THEN /\ Return(p, c, Ret("error", "No active question found", NoQuestion))
                     /\ UNCHANGED <<interview_state, questions, evaluation_cache, selected>>
                ELSE IF before.how = "call"
                THEN /\ Suspend(p, c, st, "evaluating")
                     /\ UNCHANGED <<questions, evaluation_cache, selected>>
                ELSE /\ AfterEvaluation(p, c, st, before.evaluation)
                     /\ UNCHANGED evaluation_cache

\* evaluate_response, lines 80-101, and the rest of process_response: the
\* provider call returns reply.  Without a client every call raises; with
\* one, a failing call is explored in the sessions whose calls may overlap,
\* which are the short ones.
ProviderReturns(p, reply) ==
    /\ calls[p].pc = "evaluating"
    /\ ~provider_up => reply = ProviderError
    /\ (provider_up /\ outstanding = 1) => reply # ProviderError
    /\ LET c == calls[p]
           enhanced_evaluation == EvaluateAfterProvider(reply, c.answer[1], c.difficulty)
           key == _generate_cache_key(c.current_question, c.answer[1], c.difficulty)
       IN  /\ evaluation_cache' = CachePut(evaluation_cache, key, enhanced_evaluation)
           /\ AfterEvaluation(p, c, StateOf(p),
                  [enhanced_evaluation EXCEPT !.evaluation_method = "ai_enhanced"])
    /\ UNCHANGED <<provider_up, probe, time_limit_passed, outstanding, is_redis_available, setex_failures, interview>>

\* generate_final_assessment, lines 44-97, and _end_interview, lines 244-258:
\* the narrative call returns; what is read from responses after the await
\* (question_scores, total_questions) is read from the list as it is now
NarrativeReturns(p, narrative) ==
    /\ calls[p].pc = "assessing"
    /\ ~provider_up => narrative = "raise"
    /\ LET c == calls[p]
           st == StateOf(p)
           before == c.assessment[1]
           final_assessment == AssessmentAfterNarrative(before, narrative, st.responses)
       IN  SetStateAndReturn(p, c,
               [st EXCEPT !.final_assessment = <<final_assessment>>],
               Ret("completed", "Interview completed successfully!", NoQuestion))
    /\ UNCHANGED <<provider_up, probe, time_limit_passed, outstanding, is_redis_available, setex_failures, questions, evaluation_cache, interview,
                   selected>>

----------------------------------------------------------------------------
(* ConversationManager.pause_interview, resume_interview *)

\* pause_interview, lines 326-327, with another effect on the state dict
paused_without_question(state) ==
    [state EXCEPT !.status = "paused", !.current_question = NoQuestion]

\* pause_interview, lines 326-327 (paused_at is a timestamp)
paused(state) == [state EXCEPT !.status = "paused"]

\* resume_interview, lines 346-347 (resumed_at is a timestamp)
resumed(state) == [state EXCEPT !.status = "in_progress"]

PauseInterview(p) ==
    /\ MayBegin(p)
    /\ UNCHANGED <<provider_up, probe, time_limit_passed, outstanding, is_redis_available, setex_failures, questions, evaluation_cache, interview,
                   selected>>
    /\ LET c == [IdleCall EXCEPT !.op = "pause_interview",
                     !.status_at_read = IF Stored THEN StoredState.status ELSE "none"]
       IN  IF ~Stored
           THEN /\ Return(p, c, Ret("error", "Interview not found", NoQuestion))
                /\ UNCHANGED interview_state
           ELSE IF StoredState.status # "in_progress"
           THEN /\ Return(p, c, Ret("error", "Interview is not in progress", NoQuestion))
                /\ UNCHANGED interview_state
           ELSE SetStateAndReturn(p, c, paused(StoredState),
                                  Ret("success", "Interview paused successfully", NoQuestion))

ResumeInterview(p) ==
    /\ MayBegin(p)
    /\ UNCHANGED <<provider_up, probe, time_limit_passed, outstanding, is_redis_available, setex_failures, questions, evaluation_cache, interview,
                   selected>>
    /\ LET c == [IdleCall EXCEPT !.op = "resume_interview",
                     !.status_at_read = IF Stored THEN StoredState.status ELSE "none"]
       IN  IF ~Stored
           THEN /\ Return(p, c, Ret("error", "Interview not found", NoQuestion))
                /\ UNCHANGED interview_state
           ELSE IF StoredState.status # "paused"
           THEN /\ Return(p, c, Ret("error", "Interview is not paused", NoQuestion))
                /\ UNCHANGED interview_state
           ELSE SetStateAndReturn(p, c, resumed(StoredState),
                                  Ret("success", "Interview resumed successfully",
                                      StoredState.current_question))

----------------------------------------------------------------------------
(* ConversationManager.get_interview_status *)

\* lines 292-315: the state is read and reported; nothing is written.
\* hit FALSE: get_interview_state returns None.  The status is asked for
\* early in a session.
GetInterviewStatus(p, hit) ==
    /\ MayBegin(p)
    /\ AnswersTaken < MaxDisturbedAnswers
    /\ UNCHANGED <<provider_up, probe, time_limit_passed, outstanding, is_redis_available, setex_failures, questions, evaluation_cache, interview,
                   selected, interview_state>>
    /\ LET c == [IdleCall EXCEPT !.op = "get_interview_status"]
       IN  IF ~Stored \/ ~hit
           THEN Return(p, c, Ret("not_found", "Interview not found", NoQuestion))
           ELSE Return(p, c, Ret("success", "none", StoredState.current_question))

----------------------------------------------------------------------------
(* Interview.is_expired: the clock *)

\* utcnow() - start_time grows beyond the interview's time_limit_minutes
\* (15 to 120 minutes, within the two hours the store keeps the session);
\* followed early in a session whose calls are made one at a time
TimeLimitPasses ==
    /\ Stored
    /\ Undisturbed
    /\ AnswersTaken < MaxDisturbedAnswers
    /\ time_limit_passed' = TRUE
    /\ UNCHANGED <<is_redis_available, interview_state, questions, evaluation_cache,
                   interview, calls, result, selected, setex_failures, outstanding,
                   probe, provider_up>>

----------------------------------------------------------------------------
(* The specification *)

\* the session runs through ConversationManager: no function is called on
\* its own
NoProbe == [pending |-> <<>>, returned |-> <<>>]

Interviews ==
    [skill_level : SkillLevel, max_questions : MaxQuestionsChoices]

Init ==
    /\ is_redis_available \in BOOLEAN
    /\ interview_state = <<>>
    /\ questions = _load_questions
    /\ evaluation_cache = {}
    /\ interview = <<>>
    /\ calls = [p \in Clients |-> IdleCall]
    /\ result = NoResult
    /\ selected = NoSelection
    /\ setex_failures = 0
    /\ outstanding \in 1 .. Cardinality(Clients)
    /\ time_limit_passed = FALSE
    /\ probe = NoProbe
    /\ provider_up = TRUE

Next ==
    \/ \E p \in Clients, iv \in Interviews : StartInterview(p, iv)
    \/ \E p \in Clients, ok \in BOOLEAN : StoreInitial(p, ok)
    \/ \E p \in Clients : ResumeStart(p)
    \/ \E p \in Clients, ok \in BOOLEAN : StoreWrite(p, ok)
    \/ \E p \in Clients, answer \in Answers, hit \in BOOLEAN : SubmitAnswer(p, answer, hit)
    \/ \E p \in Clients, reply \in ProviderReplies : ProviderReturns(p, reply)
    \/ \E p \in Clients, narrative \in NarrativeReplies : NarrativeReturns(p, narrative)
    \/ \E p \in Clients : PauseInterview(p)
    \/ \E p \in Clients : ResumeInterview(p)
    \/ \E p \in Clients, hit \in BOOLEAN : GetInterviewStatus(p, hit)
    \/ TimeLimitPasses

Spec == Init /\ [][Next]_vars


----------------------------------------------------------------------------
(* Properties *)

OneAbove(d) == difficulty_order[Min(Len(difficulty_order), DifficultyIndex(d) + 1)]
OneBelow(d) == difficulty_order[Max(1, DifficultyIndex(d) - 1)]

\* the scores _adjust_difficulty and get_adaptive_question average: the last
\* three after the new score was appended
RecentTotal == Sum(LastN(selected.scores, 3))
RecentCount == Len(LastN(selected.scores, 3))

\* the last selection was made by process_response at a tier of the bank
SelectedAfterAnswer ==
    /\ selected.by = "process_response"
    /\ selected.prior_difficulty \in QuestionDifficulty

\* C1: process_response is accepted only on a session whose stored status is
\* in_progress: no call that read another status gets as far as the
\* evaluation or beyond it.
C1_AcceptedOnlyInProgress ==
    \A p \in Clients :
        (calls[p].op = "process_response" /\ calls[p].pc # "idle")
            => calls[p].status_at_read = "in_progress"

\* C2: two process_response calls of one session never run interleaved: no
\* two of them are in their evaluation for the same current question.
C2_NoTwoAnswersToOneQuestion ==
    \A p, o \in Clients :
        (/\ p # o
         /\ calls[p].op = "process_response" /\ calls[p].pc = "evaluating"
         /\ calls[o].op = "process_response" /\ calls[o].pc = "evaluating")
            => calls[p].current_question # calls[o].current_question

\* C3: questions_asked never holds a question id twice, in the stored state
\* and in every state dict a coroutine holds.
C3_NoDuplicateAsked ==
    /\ Stored => NoSeqDuplicates(StoredState.questions_asked)
    /\ \A p \in Clients :
           calls[p].state # <<>> => NoSeqDuplicates(calls[p].state[1].questions_asked)

C3_Witness ==
    /\ outstanding = 2
    /\ Stored
    /\ Len(StoredState.questions_asked) >= 3
    /\ Len(StoredState.responses) >= 2

\* C4: the overall_score of every recorded evaluation is the weighted sum
\* 0.35 ta + 0.15 cc + 0.25 ps + 0.15 co + 0.10 ef of its sub-scores.
C4_OverallIsWeighted ==
    Stored =>
        \A i \in DOMAIN StoredState.responses :
            LET e == StoredState.responses[i].evaluation
            IN  e.overall_score = calculate_overall_score(e)

\* C5: when the mean of the last three scores is at least 85 and the tier T
\* the answer was given at is not advanced, the tier the next question is
\* requested from is the one above T.
C5_EscalatesOneTier ==
    (/\ SelectedAfterAnswer
     /\ RecentTotal >= 8500 * RecentCount
     /\ selected.prior_difficulty # "advanced")
        => selected.target = OneAbove(selected.prior_difficulty)

\* C6: when the mean of the last three scores is below 50 and the tier T the
\* answer was given at is not basic, the tier the next question is requested
\* from is the one below T, never two below.
C6_DeescalatesOneTier ==
    (/\ SelectedAfterAnswer
     /\ RecentTotal < 5000 * RecentCount
     /\ selected.prior_difficulty # "basic")
        => selected.target = OneBelow(selected.prior_difficulty)

\* C7: when the mean of the last three scores is at least 50 and below 85,
\* the tier the next question is requested from is the tier T the answer was
\* given at, and current_difficulty stays T.
C7_HoldsTier ==
    (/\ SelectedAfterAnswer
     /\ RecentTotal >= 5000 * RecentCount
     /\ RecentTotal < 8500 * RecentCount)
        => /\ selected.target = selected.prior_difficulty
           /\ selected.current_difficulty = selected.prior_difficulty

\* C8: start_interview returns success for every skill level, with a first
\* question, and leaves the stored session in_progress with exactly that
\* question attached.
C8_StartSucceeds ==
    result.op = "start_interview" =>
        /\ result.status = "success"
        /\ result.question # NoQuestion
        /\ Stored
        /\ StoredState.status = "in_progress"
        /\ StoredState.questions_asked = <<result.question>>
        /\ StoredState.current_question = result.question

\* C9: a session never records more answers than the max_questions its
\* Interview was configured with.
C9_AnswersWithinMaxQuestions ==
    (Stored /\ interview # <<>>) =>
        Len(StoredState.responses) <= interview[1].max_questions

\* a step in which process_response went from the evaluation to its next
\* await: update_question_stats has counted one more answer
Evaluated == TimesUsed(questions', QuestionIds) = TimesUsed(questions, QuestionIds) + 1

\* the coroutine that took the step, where the step changed its slot
Actor == CHOOSE p \in Clients : calls'[p] # calls[p]

\* the state dict before the step and the one the coroutine holds after it
StateBefore ==
    IF is_redis_available /\ calls[Actor].pc = "evaluating"
    THEN calls[Actor].state[1] ELSE StoredState
StateAfter ==
    IF is_redis_available THEN calls'[Actor].state[1] ELSE interview_state'[1]

\* the step entered _end_interview
Ended == \E p \in Clients : calls'[p].pc = "assessing" /\ calls[p].pc # "assessing"

LowRunningMean(s) ==
    Len(s.scores) >= 5 /\ Sum(s.scores) < 2500 * Len(s.scores)

\* C10: a submission that leaves at least 5 scores with a running mean below
\* 25 ends the session: it enters _end_interview, the state is completed, no
\* question is attached, and when the assessment returns the state carries
\* the final assessment and the call answers completed without a question.
\* A submission that leaves fewer than 5 scores or a mean of 25 or more ends
\* the session only at the question limit or when no question is left.
C10_EarlyTermination ==
    [][/\ Evaluated =>
            /\ LowRunningMean(StateAfter) =>
                   /\ Ended
                   /\ StateAfter.status = "completed"
                   /\ StateAfter.questions_asked = StateBefore.questions_asked
                   /\ StateAfter.current_question = StateBefore.current_question
            /\ (~LowRunningMean(StateAfter) /\ Ended) =>
                   \/ Len(StateAfter.responses) >= max_questions
                   \/ _get_next_question(questions', StateAfter) = {}
       /\ \A p \in Clients :
            (calls[p].pc = "assessing" /\ calls'[p].pc # "assessing") =>
                LET s == IF is_redis_available
                         THEN calls'[p].state[1] ELSE interview_state'[1]
                    ret == IF is_redis_available THEN calls'[p].ret ELSE result'
                IN  /\ s.status = "completed"
                    /\ s.final_assessment # <<>>
                    /\ ret.status = "completed"
                    /\ ret.question = NoQuestion
      ]_vars

C10_Witness ==
    \E p \in Clients :
        /\ calls[p].op = "process_response"
        /\ calls[p].pc = "assessing"
        /\ LowRunningMean(StateOf(p))
        /\ Len(StateOf(p).scores) = 5
        /\ StateOf(p).status = "completed"


----------------------------------------------------------------------------
(* Running out of questions *)

\* a step in which _get_next_question was asked for a question and gave None
SelectionFailed == selected' # selected /\ ~selected'.found

\* C11: whenever question selection yields no question, after an answer or at
\* the start, the session is ended at once: the call that asked goes on to
\* _end_interview with the state marked completed, and returns no error.
C11_NoQuestionEndsSession ==
    [][SelectionFailed =>
          /\ result' = result
          /\ \E p \in Clients :
                 /\ calls'[p].pc = "assessing"
                 /\ calls[p].pc # "assessing"
                 /\ StateOf(p)'.status = "completed"]_vars


----------------------------------------------------------------------------
(* The completed session *)

\* the stored session has been ended and carries its final assessment
Completed ==
    /\ Stored
    /\ StoredState.status = "completed"
    /\ StoredState.final_assessment # <<>>

\* C12: completed is terminal and frozen: once the stored session is
\* completed with its final assessment, no step changes its status, its
\* responses, its scores or the final assessment.
C12_CompletedIsFrozen ==
    [][Completed =>
          /\ Stored'
          /\ StoredState'.status = StoredState.status
          /\ StoredState'.responses = StoredState.responses
          /\ StoredState'.scores = StoredState.scores
          /\ StoredState'.final_assessment = StoredState.final_assessment]_vars


----------------------------------------------------------------------------
(* The time limit *)

\* a step in which a free slot took a request for op: the slot is left in the
\* call, or the call has returned in the same step
Began(op) ==
    \E p \in Clients :
        /\ Idle(p)
        /\ \A o \in Clients \ {p} : calls'[o] = calls[o]
        /\ \/ calls'[p].op = op
           \/ calls'[p] = calls[p] /\ result' # result /\ result'.op = op

\* C13: a session that is in_progress or paused and past its time limit is
\* treated as expired on its next access: process_response and
\* resume_interview report expired, evaluate nothing and issue no question.
C13_ExpiredOnAccess ==
    [][(/\ time_limit_passed
        /\ Stored
        /\ StoredState.status \in {"in_progress", "paused"}
        /\ Began("process_response") \/ Began("resume_interview"))
          => /\ result'.status = "expired"
             /\ result'.question = NoQuestion
             /\ \A p \in Clients : calls'[p].pc # "evaluating"
             /\ UNCHANGED <<questions, evaluation_cache>>]_vars


----------------------------------------------------------------------------
(* ExcelEvaluator.evaluate_response called on its own, one call after the  *)
(* other, with whatever the provider may reply.  probe.pending is the call *)
(* suspended in the provider call, probe.returned the calls that returned, *)
(* each with its arguments, its evaluation and whether it asked the        *)
(* provider.                                                               *)

\* evaluations asked for
MaxEvaluations == 2

EvaluatorQuestions == {<<"basic", 1>>}
EvaluatorAnswers == {TerseAnswer, ThoroughAnswer, NonTextAnswer}
EvaluatorDifficulties == {"basic", "advanced", "beginner"}

\* a reply whose sub-scores are each out of range in another way
MixedReply ==
    [UniformReply(80) EXCEPT !.technical_accuracy = Num(-5),
                             !.communication_clarity = Num(150),
                             !.problem_solving_approach = NotANumber,
                             !.completeness = Num(NaN)]

\* the values a provider reports as its own overall_score
OverallValues == {Num(0), Num(80), Num(150), Num(NaN), NotANumber, Num(HugeInt)}

EvaluatorReplies ==
    {UniformReply(-5), UniformReply(150), UniformReply(NaN),
     [UniformReply(80) EXCEPT !.efficiency = NotANumber],
     MixedReply, ProviderError,
     [UniformReply(0) EXCEPT !.kind = "malformed"],
     [UniformReply(0) EXCEPT !.kind = "missing"]}
    \cup {[UniformReply(80) EXCEPT !.overall_score = v] : v \in OverallValues}

ReturnedEvaluation(call, evaluation, provider_reply) ==
    [question |-> call.question, response |-> call.response.text,
     difficulty |-> call.difficulty, evaluation |-> evaluation,
     provider_called |-> provider_reply # <<>>, provider_reply |-> provider_reply]

\* evaluate_response, lines 65-84: up to the provider call
EvaluateResponse(question, response, difficulty) ==
    /\ probe.pending = <<>>
    /\ Len(probe.returned) < MaxEvaluations
    /\ LET call == [question |-> question, response |-> response,
                    difficulty |-> difficulty]
           before == EvaluateBeforeProvider(evaluation_cache, question, response,
                                            difficulty)
       IN  probe' = IF before.how = "call"
                    THEN [probe EXCEPT !.pending = <<call>>]
                    ELSE [probe EXCEPT !.returned =
                             Append(@, ReturnedEvaluation(call, before.evaluation, <<>>))]
    /\ UNCHANGED <<is_redis_available, interview_state, questions, evaluation_cache,
                   interview, calls, result, selected, setex_failures, outstanding,
                   time_limit_passed, provider_up>>

\* evaluate_response, lines 80-101: the provider call returns reply
ProviderAnswers(reply) ==
    /\ probe.pending # <<>>
    /\ LET call == probe.pending[1]
           enhanced_evaluation ==
               EvaluateAfterProvider(reply, call.response, call.difficulty)
           key == _generate_cache_key(call.question, call.response, call.difficulty)
       IN  /\ evaluation_cache' = CachePut(evaluation_cache, key, enhanced_evaluation)
           /\ probe' = [pending |-> <<>>,
                        returned |-> Append(probe.returned,
                            ReturnedEvaluation(call,
                                [enhanced_evaluation EXCEPT !.evaluation_method = "ai_enhanced"],
                                <<reply>>))]
    /\ UNCHANGED <<is_redis_available, interview_state, questions, interview, calls,
                   result, selected, setex_failures, outstanding, time_limit_passed,
                   provider_up>>

InitEvaluator ==
    /\ is_redis_available = FALSE
    /\ interview_state = <<>>
    /\ questions = _load_questions
    /\ evaluation_cache = {}
    /\ interview = <<>>
    /\ calls = [p \in Clients |-> IdleCall]
    /\ result = NoResult
    /\ selected = NoSelection
    /\ setex_failures = 0
    /\ outstanding = 1
    /\ time_limit_passed = FALSE
    /\ probe = NoProbe
    /\ provider_up = TRUE

NextEvaluator ==
    \/ \E question \in EvaluatorQuestions, response \in EvaluatorAnswers,
          difficulty \in EvaluatorDifficulties :
           EvaluateResponse(question, response, difficulty)
    \/ \E reply \in EvaluatorReplies : ProviderAnswers(reply)

SpecEvaluator == InitEvaluator /\ [][NextEvaluator]_vars

\* two calls that returned one after the other with the same arguments
SameArguments(i) ==
    /\ i + 1 \in DOMAIN probe.returned
    /\ probe.returned[i].question = probe.returned[i + 1].question
    /\ probe.returned[i].response = probe.returned[i + 1].response
    /\ probe.returned[i].difficulty = probe.returned[i + 1].difficulty

\* C14 as stated: evaluating the same (question, answer, difficulty) twice in
\* sequence returns an evaluation identical in every field, the evaluation
\* metadata included, and the second call does not ask the provider.
C14_SameEvaluationTwice ==
    \A i \in DOMAIN probe.returned :
        SameArguments(i) =>
            /\ probe.returned[i + 1].evaluation = probe.returned[i].evaluation
            /\ ~probe.returned[i + 1].provider_called

\* C14 amended: the second evaluation is the first one in every field but
\* evaluation_method, which is "cached" when the first call asked the
\* provider and "fallback" again when it did not; the second call does not
\* ask the provider.
C14_SameScoresTwice ==
    \A i \in DOMAIN probe.returned :
        SameArguments(i) =>
            LET first == probe.returned[i].evaluation
                second == probe.returned[i + 1].evaluation
            IN  /\ [second EXCEPT !.evaluation_method = first.evaluation_method] = first
                /\ second.evaluation_method =
                       IF first.evaluation_method = "fallback" THEN "fallback" ELSE "cached"
                /\ ~probe.returned[i + 1].provider_called

C14_Witness ==
    /\ Len(probe.returned) = 2
    /\ SameArguments(1)
    /\ probe.returned[1].provider_called
    /\ probe.returned[2].evaluation.evaluation_method = "cached"
    /\ probe.returned[2].evaluation.overall_score = 10000


----------------------------------------------------------------------------
(* Usage counters *)

\* the evaluation of the answer the step recorded
RecordedEvaluation == StateAfter.responses[Len(StateAfter.responses)].evaluation

\* C15: an identical submission whose evaluation is served from the cache
\* does not update the question's usage counters again: no step that counts
\* a use (times_used grows) records an evaluation taken from the cache.
C15_CachedNotCounted ==
    [][Evaluated => RecordedEvaluation.evaluation_method # "cached"]_vars


----------------------------------------------------------------------------
(* A session held while the provider is down: LLMService has no client, so *)
(* generate_response raises in every evaluation and in the narrative.  The *)
(* candidate answers each question it is given, one call at a time.        *)

InitProviderDown ==
    /\ is_redis_available \in BOOLEAN
    /\ interview_state = <<>>
    /\ questions = _load_questions
    /\ evaluation_cache = {}
    /\ interview = <<>>
    /\ calls = [p \in Clients |-> IdleCall]
    /\ result = NoResult
    /\ selected = NoSelection
    /\ setex_failures = 0
    /\ outstanding = 1
    /\ time_limit_passed = FALSE
    /\ probe = NoProbe
    /\ provider_up = FALSE

NextProviderDown ==
    \/ \E p \in Clients, iv \in Interviews : StartInterview(p, iv)
    \/ \E p \in Clients : StoreInitial(p, TRUE)
    \/ \E p \in Clients : ResumeStart(p)
    \/ \E p \in Clients : StoreWrite(p, TRUE)
    \/ \E p \in Clients, answer \in Answers : SubmitAnswer(p, answer, TRUE)
    \/ \E p \in Clients : ProviderReturns(p, ProviderError)
    \/ \E p \in Clients : NarrativeReturns(p, "raise")

SpecProviderDown == InitProviderDown /\ [][NextProviderDown]_vars

\* the session was started with a first question and no call is running
StartedAndQuiet ==
    /\ Stored
    /\ StoredState.questions_asked # <<>>
    /\ \A p \in Clients : Idle(p)

\* what LLMService._get_fallback_evaluation gives once enhanced
IsFallbackEvaluation(response) ==
    /\ response.evaluation.feedback = "llm_fallback"
    /\ response.evaluation.evaluation_method \in {"ai_enhanced", "cached"}

\* C16: with the provider failing on every call a started session proceeds
\* question by question on fallback evaluations (an answer is answered by the
\* next question or by completion, never by an error), and once the question
\* limit is reached it is completed with a final assessment computed from the
\* recorded answers, with a non-empty narrative, which is not the default
\* assessment.
C16_CompletesWithoutProvider ==
    StartedAndQuiet =>
        /\ \A i \in DOMAIN StoredState.responses :
               IsFallbackEvaluation(StoredState.responses[i])
        /\ result.op = "process_response" =>
               /\ result.status \in {"continue", "completed"}
               /\ result.status = "continue" <=> result.question # NoQuestion
               /\ result.status = "completed" <=> StoredState.status = "completed"
        /\ Len(StoredState.responses) >= max_questions =>
               StoredState.status = "completed"
        /\ StoredState.status = "completed" =>
               /\ StoredState.final_assessment # <<>>
               /\ StoredState.final_assessment[1].detailed_feedback # ""
               /\ StoredState.final_assessment[1] # _get_default_assessment
               /\ StoredState.final_assessment[1].total_questions
                      = Len(StoredState.responses)
               /\ StoredState.final_assessment[1].overall_score
                      = StatsOverallScore(StoredState.responses)

C16_Witness ==
    /\ StartedAndQuiet
    /\ ~provider_up
    /\ Len(StoredState.responses) = max_questions
    /\ StoredState.status = "completed"
    /\ result.status = "completed"


----------------------------------------------------------------------------
(* Errors of process_response *)

\* a step in which a process_response call returned status error
ReturnedError ==
    /\ result' # result
    /\ result'.op = "process_response"
    /\ result'.status = "error"

----------------------------------------------------------------------------
(* The range of the scores *)

WithinRange(e) ==
    /\ \A f \in {e.technical_accuracy, e.communication_clarity,
                 e.problem_solving_approach, e.completeness, e.efficiency} :
           0 <= f /\ f <= 100
    /\ 0 <= e.overall_score /\ e.overall_score <= 100 * 100

\* C18: every evaluation evaluate_response returns, and every evaluation it
\* keeps in its cache, has its five sub-scores and its overall_score within
\* 0..100, whatever the provider replied (negative, above 100, non-numeric,
\* nan, malformed, nothing) and whatever the local adjustments are.
C18_ScoresWithinRange ==
    /\ \A i \in DOMAIN probe.returned : WithinRange(probe.returned[i].evaluation)
    /\ \A c \in evaluation_cache : WithinRange(c.value)

C18_Witness ==
    \E i \in DOMAIN probe.returned :
        /\ probe.returned[i].provider_reply = <<MixedReply>>
        /\ probe.returned[i].response = ThoroughAnswer.text
        /\ probe.returned[i].evaluation.communication_clarity = 100
        /\ probe.returned[i].evaluation.completeness = 100
        /\ probe.returned[i].evaluation.technical_accuracy = 10


----------------------------------------------------------------------------
(* FeedbackEngine._determine_hire_recommendation, _determine_skill_level    *)
(* and generate_final_assessment called on their own.  probe holds the     *)
(* arguments (scores in hundredths of a point) and, once the function was  *)
(* applied, what it returned.                                              *)

\* the scores: every whole point of 0..100 and the hundredth below it
MaxScore == 100

VerdictScores ==
    {s \in {100 * k - d : k \in 0 .. MaxScore, d \in {0, 1}} : s >= 0}

\* consistency and performance_trend around the values they are compared with
VerdictConsistencies == {0, 4999, 5000, 5999, 6000, 6999, 7000, 10000}
VerdictTrends == {-500, 0, 500, 501}

\* the scores a second verdict is made for, to compare the two
LowerScores == {0, 2499, 2500, 4499, 4500, 6499, 6500, 7999, 8000, 8999, 9000, 10000}

\* the stats dict holding consistency c and performance_trend t
StatsOf(c, t) ==
    [consistency_at_least |-> [k \in ConsistencyThresholds |-> c >= 100 * k],
     performance_trend_above_5 |-> t > 500]

HireProbes ==
    [fn : {"_determine_hire_recommendation"}, overall_score : VerdictScores,
     consistency : VerdictConsistencies, performance_trend : VerdictTrends,
     verdict : {"none"}]

SkillProbes ==
    [fn : {"_determine_skill_level"}, overall_score : VerdictScores,
     lower_score : LowerScores, verdict : {"none"}, lower_verdict : {"none"}]

DetermineHire ==
    /\ probe.fn = "_determine_hire_recommendation"
    /\ probe.verdict = "none"
    /\ probe' = [probe EXCEPT !.verdict =
                    _determine_hire_recommendation(probe.overall_score,
                        StatsOf(probe.consistency, probe.performance_trend))]
    /\ UNCHANGED <<is_redis_available, interview_state, questions, evaluation_cache,
                   interview, calls, result, selected, setex_failures, outstanding,
                   time_limit_passed, provider_up>>

DetermineSkill ==
    /\ probe.fn = "_determine_skill_level"
    /\ probe.verdict = "none"
    /\ probe' = [probe EXCEPT
                    !.verdict = _determine_skill_level(probe.overall_score),
                    !.lower_verdict = _determine_skill_level(probe.lower_score)]
    /\ UNCHANGED <<is_redis_available, interview_state, questions, evaluation_cache,
                   interview, calls, result, selected, setex_failures, outstanding,
                   time_limit_passed, provider_up>>

\* the response lists generate_final_assessment is given: none, one or two
\* answers as process_response records them, scored 25 or 100 throughout
ScoredResponse(n) ==
    [question_id |-> <<"basic", 1>>,
     candidate_response |-> TerseAnswer.text,
     evaluation |-> [EvaluateAfterProvider(UniformReply(n), TerseAnswer, "basic")
                        EXCEPT !.evaluation_method = "ai_enhanced"]]

AssessmentResponses ==
    LET one == {ScoredResponse(25), ScoredResponse(100)}
    IN  {<<>>} \cup {<<a>> : a \in one} \cup {<<a, b>> : a \in one, b \in one}

AssessmentProbes ==
    [fn : {"generate_final_assessment"}, responses : AssessmentResponses,
     narrative : NarrativeReplies, assessment : {<<>>}]

GenerateFinalAssessment ==
    /\ probe.fn = "generate_final_assessment"
    /\ probe.assessment = <<>>
    /\ probe' = [probe EXCEPT !.assessment =
                    <<generate_final_assessment(probe.responses, probe.narrative)>>]
    /\ UNCHANGED <<is_redis_available, interview_state, questions, evaluation_cache,
                   interview, calls, result, selected, setex_failures, outstanding,
                   time_limit_passed, provider_up>>

InitVerdict ==
    /\ is_redis_available = FALSE
    /\ interview_state = <<>>
    /\ questions = _load_questions
    /\ evaluation_cache = {}
    /\ interview = <<>>
    /\ calls = [p \in Clients |-> IdleCall]
    /\ result = NoResult
    /\ selected = NoSelection
    /\ setex_failures = 0
    /\ outstanding = 1
    /\ time_limit_passed = FALSE
    /\ provider_up = TRUE
    /\ probe \in HireProbes \cup SkillProbes \cup AssessmentProbes

NextVerdict ==
    \/ DetermineHire
    \/ DetermineSkill
    \/ GenerateFinalAssessment

SpecVerdict == InitVerdict /\ [][NextVerdict]_vars

\* C19: for every overall score s, consistency c and trend t the hire
\* recommendation is strong_hire if s >= 85 and c >= 70; else hire if
\* s >= 75 and c >= 60; else conditional_hire if s >= 60 and (c >= 50 or
\* t > 5); else no_hire if s >= 40; else strong_no_hire.
C19_HireRecommendation ==
    (probe.fn = "_determine_hire_recommendation" /\ probe.verdict # "none") =>
        LET s == probe.overall_score
            c == probe.consistency
            t == probe.performance_trend
        IN  /\ probe.verdict = "strong_hire" <=> (s >= 8500 /\ c >= 7000)
            /\ probe.verdict = "hire" <=>
                   /\ ~(s >= 8500 /\ c >= 7000)
                   /\ s >= 7500 /\ c >= 6000
            /\ probe.verdict = "conditional_hire" <=>
                   /\ ~(s >= 8500 /\ c >= 7000)
                   /\ ~(s >= 7500 /\ c >= 6000)
                   /\ s >= 6000 /\ (c >= 5000 \/ t > 500)
            /\ probe.verdict = "no_hire" <=>
                   /\ ~(s >= 7500 /\ c >= 6000)
                   /\ ~(s >= 6000 /\ (c >= 5000 \/ t > 500))
                   /\ s >= 4000
            /\ probe.verdict = "strong_no_hire" <=> s < 4000
            /\ probe.verdict \in {"strong_hire", "hire", "conditional_hire",
                                  "no_hire", "strong_no_hire"}

\* a score of 85 or more with a consistency below 60 and a rising trend:
\* neither strong_hire nor hire, but conditional_hire
C19_Witness ==
    /\ probe.fn = "_determine_hire_recommendation"
    /\ probe.overall_score >= 8500
    /\ probe.consistency < 5000
    /\ probe.performance_trend > 500
    /\ probe.verdict = "conditional_hire"

SkillRank(level) ==
    CASE level = "insufficient_data" -> 0
      [] level = "beginner" -> 1
      [] level = "basic" -> 2
      [] level = "intermediate" -> 3
      [] level = "advanced" -> 4
      [] level = "expert" -> 5

\* C20: the skill-level verdict is expert from 90, advanced from 80,
\* intermediate from 65, basic from 45, beginner from 25 and
\* insufficient_data below, and it is monotone: a lower score never gets a
\* higher level.
C20_SkillLevel ==
    (probe.fn = "_determine_skill_level" /\ probe.verdict # "none") =>
        LET s == probe.overall_score
        IN  /\ probe.verdict =
                   (IF s >= 9000 THEN "expert"
                    ELSE IF s >= 8000 THEN "advanced"
                    ELSE IF s >= 6500 THEN "intermediate"
                    ELSE IF s >= 4500 THEN "basic"
                    ELSE IF s >= 2500 THEN "beginner"
                    ELSE "insufficient_data")
            /\ probe.lower_score <= s =>
                   SkillRank(probe.lower_verdict) <= SkillRank(probe.verdict)
            /\ probe.lower_score >= s =>
                   SkillRank(probe.lower_verdict) >= SkillRank(probe.verdict)

C20_Witness ==
    /\ probe.fn = "_determine_skill_level"
    /\ probe.overall_score = 6500
    /\ probe.lower_score = 6499
    /\ probe.verdict = "intermediate"
    /\ probe.lower_verdict = "basic"


\* C21: generate_final_assessment called with an empty response list returns
\* (it does not raise) an assessment whose skill_level_assessment is
\* insufficient_data and whose overall_score is 0.
C21_EmptyListAssessment ==
    (/\ probe.fn = "generate_final_assessment"
     /\ probe.responses = <<>>
     /\ probe.assessment # <<>>) =>
        /\ probe.assessment[1].skill_level_assessment = "insufficient_data"
        /\ probe.assessment[1].overall_score = 0

\* the call with the empty list has returned the default assessment
C21_Witness ==
    /\ probe.fn = "generate_final_assessment"
    /\ probe.responses = <<>>
    /\ probe.assessment # <<>>
    /\ probe.assessment[1].total_questions = 0
    /\ probe.assessment[1].hire_recommendation = "no_hire"


----------------------------------------------------------------------------
(* Pause and resume *)

\* a step in which the free slot p took a request for op: the slot is left in
\* the call, or the call has returned in the same step
BeganBy(p, op) ==
    /\ Idle(p)
    /\ \A o \in Clients \ {p} : calls'[o] = calls[o]
    /\ \/ calls'[p].op = op
       \/ calls'[p] = calls[p] /\ result' # result /\ result'.op = op

\* a step in which the call of op that slot p was suspended in returns
EndedBy(p, op) ==
    /\ calls[p].op = op
    /\ calls'[p] = IdleCall

\* A call of op succeeds exactly on a session it finds with status from; the
\* state it then hands to the store is the one it found but for the status
\* to, and the store holds afterwards what it held or that state.  On any
\* other status the call returns an error at once and the store is as it was.
\* When the session's calls are made one at a time, a write that takes
\* effect changes the stored status and nothing else.
ChangesOnlyStatus(op, from, to) ==
    \A p \in Clients :
        /\ BeganBy(p, op) =>
               IF Stored /\ StoredState.status = from
               THEN LET written == [StoredState EXCEPT !.status = to]
                    IN  IF is_redis_available
                        THEN /\ calls'[p].pc = "storing"
                             /\ calls'[p].state = <<written>>
                             /\ calls'[p].ret.status = "success"
                             /\ interview_state' = interview_state
                        ELSE /\ Idle(p)'
                             /\ result'.status = "success"
                             /\ interview_state' = <<written>>
               ELSE /\ Idle(p)'
                    /\ result'.status = "error"
                    /\ interview_state' = interview_state
        /\ EndedBy(p, op) =>
               /\ result'.op = op
               /\ result'.status = "success"
               /\ interview_state' \in {interview_state, calls[p].state}
               /\ (outstanding = 1 /\ interview_state' # interview_state) =>
                      StoredState' = [StoredState EXCEPT !.status = to]

\* C22: pause_interview succeeds only on an in_progress session and
\* resume_interview only on a paused one; each changes only the status, so
\* that a pause followed by a resume leaves the session in_progress with the
\* same current_question, responses, scores, questions_asked and
\* current_difficulty; called on any other status each returns an error and
\* changes nothing.
C22_PauseResumeChangeOnlyStatus ==
    [][/\ ChangesOnlyStatus("pause_interview", "in_progress", "paused")
       /\ ChangesOnlyStatus("resume_interview", "paused", "in_progress")]_vars

\* a session with an answer recorded was paused and has been resumed: it is
\* in_progress and the caller got its current question back
C22_Witness ==
    /\ result.op = "resume_interview"
    /\ result.status = "success"
    /\ Stored
    /\ StoredState.status = "in_progress"
    /\ Len(StoredState.responses) >= 1
    /\ result.question = StoredState.current_question
    /\ result.question # NoQuestion


----------------------------------------------------------------------------
(* The high scorer: start_interview is called with an interview whose      *)
(* skill_level is "basic" and the default max_questions, the session's     *)
(* calls are made one at a time, every answer is a plain one that the      *)
(* provider scores 90 throughout, and every write of the store succeeds.   *)

HighScorerInterviews ==
    [skill_level : {"basic"}, max_questions : {DefaultMaxQuestions}]

InitHighScorer ==
    /\ is_redis_available \in BOOLEAN
    /\ interview_state = <<>>
    /\ questions = _load_questions
    /\ evaluation_cache = {}
    /\ interview = <<>>
    /\ calls = [p \in Clients |-> IdleCall]
    /\ result = NoResult
    /\ selected = NoSelection
    /\ setex_failures = 0
    /\ outstanding = 1
    /\ time_limit_passed = FALSE
    /\ probe = NoProbe
    /\ provider_up = TRUE

NextHighScorer ==
    \/ \E p \in Clients, iv \in HighScorerInterviews : StartInterview(p, iv)
    \/ \E p \in Clients : StoreInitial(p, TRUE)
    \/ \E p \in Clients : ResumeStart(p)
    \/ \E p \in Clients : StoreWrite(p, TRUE)
    \/ \E p \in Clients, hit \in BOOLEAN : SubmitAnswer(p, PlainAnswer, hit)
    \/ \E p \in Clients : ProviderReturns(p, UniformReply(90))
    \/ \E p \in Clients, narrative \in NarrativeReplies : NarrativeReturns(p, narrative)

SpecHighScorer == InitHighScorer /\ [][NextHighScorer]_vars

\* every answer recorded so far was evaluated with all five sub-scores at 90
AllNinety(responses) ==
    \A i \in DOMAIN responses :
        \A f \in Range(score_fields) : responses[i].evaluation[f] = 90

----------------------------------------------------------------------------
(* What the operations return *)

CandidateOperations ==
    {"start_interview", "process_response", "pause_interview",
     "resume_interview", "get_interview_status"}

StructuredOutcomes == {"success", "continue", "completed", "error"}

\* C24: start_interview, process_response, pause_interview, resume_interview
\* and get_interview_status never raise: whatever the input (an unknown
\* session id, a failing store or provider), each returns a mapping whose
\* status is one of success, continue, completed, error.
C24_StructuredOutcome ==
    result.op \in CandidateOperations => result.status \in StructuredOutcomes


----------------------------------------------------------------------------
(* What the store holds when a step is reported *)

\* a step in which a call of op returns to its caller
ReturnedFrom(op) ==
    /\ result' # result
    /\ result'.op = op

----------------------------------------------------------------------------
(* A pause and the calls in flight *)

\* the last call that returned is a pause_interview that reported success:
\* no resume_interview has returned since
PauseReported ==
    /\ result.op = "pause_interview"
    /\ result.status = "success"

\* the step hands an answer to evaluate_response
EvaluationIssued ==
    \/ \E p \in Clients : calls'[p].pc = "evaluating" /\ calls[p].pc # "evaluating"
    \/ \E p \in Clients : BeganBy(p, "process_response") /\ Evaluated

\* C26: once pause_interview has returned success, the stored status stays
\* paused and no evaluation call is issued for the session until
\* resume_interview succeeds, whatever a process_response does that was in
\* flight when the pause was made.
C26_PausedUntilResumed ==
    [][PauseReported =>
          \/ result'.op = "resume_interview" /\ result'.status = "success"
          \/ /\ Stored'
             /\ StoredState'.status = "paused"
             /\ ~EvaluationIssued]_vars


----------------------------------------------------------------------------
(* What the evaluation cache keeps *)

\* the call that returned as number i asked the provider and got no usable
\* reply: the call raised, or the text was no JSON or lacked a field
ProviderFailed(i) ==
    /\ probe.returned[i].provider_called
    /\ probe.returned[i].provider_reply[1].kind # "ok"

\* C27: only evaluations scored by the provider are stored in the evaluation
\* cache: when the provider call fails or its reply is unusable and a
\* fallback evaluation is produced, nothing is cached for that (question,
\* answer, difficulty), and an identical submission made afterwards is put to
\* the provider again.
C27_OnlyProviderScoresCached ==
    /\ \A c \in evaluation_cache : c.value.feedback = "provider"
    /\ \A i \in DOMAIN probe.returned :
           (ProviderFailed(i) /\ SameArguments(i)) =>
               probe.returned[i + 1].provider_called


----------------------------------------------------------------------------
(* QuestionBankService.get_adaptive_question called on its own, on the     *)
(* bank as it is loaded.  probe holds the arguments and, once the function *)
(* was applied, whether it returned or raised and the question returned.   *)

\* how many questions of a tier the caller names as asked: none, all but
\* one, all
AskedPerTier == {0, QuestionsPerDifficulty - 1, QuestionsPerDifficulty}

\* the first k questions of a tier
AskedOf(tier, k) == [i \in 1 .. k |-> <<tier, i>>]

AskedLists ==
    {AskedOf("basic", kb) \o AskedOf("intermediate", ki) \o AskedOf("advanced", ka) :
        kb \in AskedPerTier, ki \in AskedPerTier, ka \in AskedPerTier}

\* no score, or one score in each band of the target computation
SelectorScores == {<<>>, <<4000>>, <<6000>>, <<7500>>, <<9000>>}

SelectorProbes ==
    [fn : {"get_adaptive_question"},
     current_difficulty : QuestionDifficulty \cup {"beginner"},
     previous_scores : SelectorScores,
     asked_question_ids : AskedLists,
     outcome : {"none"}, question : {<<>>}]

\* lines 267-321: QuestionDifficulty(current_difficulty) raises ValueError
\* for a string that is no tier; otherwise random.choice draws one of the
\* candidates, or None is returned
GetAdaptiveQuestion ==
    /\ probe.fn = "get_adaptive_question"
    /\ probe.outcome = "none"
    /\ LET candidates ==
               get_adaptive_question(questions, probe.current_difficulty,
                   probe.previous_scores, probe.asked_question_ids)
       IN  IF target_difficulty(probe.current_difficulty, probe.previous_scores)
                  = "ValueError"
           THEN probe' = [probe EXCEPT !.outcome = "raised"]
           ELSE IF candidates = {}
           THEN probe' = [probe EXCEPT !.outcome = "returned"]
           ELSE \E q \in candidates :
                    probe' = [probe EXCEPT !.outcome = "returned", !.question = <<q>>]
    /\ UNCHANGED <<is_redis_available, interview_state, questions, evaluation_cache,
                   interview, calls, result, selected, setex_failures, outstanding,
                   time_limit_passed, provider_up>>

InitSelector ==
    /\ is_redis_available = FALSE
    /\ interview_state = <<>>
    /\ questions = _load_questions
    /\ evaluation_cache = {}
    /\ interview = <<>>
    /\ calls = [p \in Clients |-> IdleCall]
    /\ result = NoResult
    /\ selected = NoSelection
    /\ setex_failures = 0
    /\ outstanding = 1
    /\ time_limit_passed = FALSE
    /\ provider_up = TRUE
    /\ probe \in SelectorProbes

NextSelector == GetAdaptiveQuestion

SpecSelector == InitSelector /\ [][NextSelector]_vars

\* the active questions of a tier that the caller has not named as asked
Unasked(tier) ==
    {q \in QuestionIds :
        /\ q[1] = tier
        /\ questions[q].is_active
        /\ q \notin Range(probe.asked_question_ids)}

\* the unasked questions of the tier offset places from the target, if there
\* is such a tier
UnaskedAt(target, offset) ==
    LET index == DifficultyIndex(target) + offset
    IN  IF index \in DOMAIN difficulty_order
        THEN Unasked(difficulty_order[index]) ELSE {}

----------------------------------------------------------------------------
(* The provider's own overall_score *)

\* the answer a returned call was made with
AnswerOf(returned) == CHOOSE a \in EvaluatorAnswers : a.text = returned.response

\* what evaluate_response returns for the call when the provider replies
\* reply
EvaluationFor(returned, reply) ==
    [EvaluateAfterProvider(reply, AnswerOf(returned), returned.difficulty)
        EXCEPT !.evaluation_method = "ai_enhanced"]

\* C29: two provider replies that differ only in the value of their
\* self-reported overall_score make evaluate_response return the same
\* Evaluation: whatever a call that asked the provider returned, it would
\* have returned for the same reply with any other overall_score.
C29_OverallScoreIgnored ==
    \A i \in DOMAIN probe.returned :
        probe.returned[i].provider_called =>
            \A v \in OverallValues :
                EvaluationFor(probe.returned[i],
                    [probe.returned[i].provider_reply[1] EXCEPT !.overall_score = v])
                = probe.returned[i].evaluation


----------------------------------------------------------------------------
(* Termination.  A candidate who keeps submitting answers, one call at a   *)
(* time, in a session of an interview with the default max_questions; the  *)
(* provider scores every answer 90 and every call it is asked for returns; *)
(* a Redis write may fail.  Every await returns (the event loop resumes    *)
(* the coroutine), and the candidate submits again whenever no call is     *)
(* outstanding.                                                            *)

LiveInterviews ==
    [skill_level : {"intermediate"}, max_questions : {DefaultMaxQuestions}]

InitLive ==
    /\ is_redis_available \in BOOLEAN
    /\ interview_state = <<>>
    /\ questions = _load_questions
    /\ evaluation_cache = {}
    /\ interview = <<>>
    /\ calls = [p \in Clients |-> IdleCall]
    /\ result = NoResult
    /\ selected = NoSelection
    /\ setex_failures = 0
    /\ outstanding = 1
    /\ time_limit_passed = FALSE
    /\ probe = NoProbe
    /\ provider_up = TRUE

StartsLive == \E p \in Clients, iv \in LiveInterviews : StartInterview(p, iv)
StoresInitialLive == \E p \in Clients, ok \in BOOLEAN : StoreInitial(p, ok)
ResumesStartLive == \E p \in Clients : ResumeStart(p)
StoresLive == \E p \in Clients, ok \in BOOLEAN : StoreWrite(p, ok)
SubmitsLive == \E p \in Clients : SubmitAnswer(p, PlainAnswer, TRUE)
ProviderReturnsLive == \E p \in Clients : ProviderReturns(p, UniformReply(90))
NarrativeReturnsLive == \E p \in Clients : NarrativeReturns(p, "text")

\* a call is suspended in the provider's evaluation: ProviderReturnsLive is
\* enabled, and every step of it ends that evaluation
EvaluationPending == \E p \in Clients : calls[p].pc = "evaluating"

NextLive ==
    \/ StartsLive
    \/ StoresInitialLive
    \/ ResumesStartLive
    \/ StoresLive
    \/ SubmitsLive
    \/ ProviderReturnsLive
    \/ NarrativeReturnsLive

\* Weak fairness of every step the event loop or the candidate takes; that
\* of ProviderReturnsLive is written out with its enabling condition.
SpecLive ==
    /\ InitLive
    /\ [][NextLive]_vars
    /\ WF_vars(StoresInitialLive)
    /\ WF_vars(ResumesStartLive)
    /\ WF_vars(StoresLive)
    /\ WF_vars(SubmitsLive)
    /\ ([]<>(~EvaluationPending) \/ []<><<ProviderReturnsLive>>_vars)
    /\ WF_vars(NarrativeReturnsLive)

\* start_interview has just returned success with the first question
StartReported ==
    /\ result.op = "start_interview"
    /\ result.status = "success"

\* the stored session is completed and carries its final assessment
CompletedWithAssessment ==
    /\ Stored
    /\ StoredState.status = "completed"
    /\ StoredState.final_assessment # <<>>

----------------------------------------------------------------------------
(* Two sessions side by side.  The store keeps one state per interview id   *)
(* (key "interview:<id>"); the two coroutine slots serve requests of either *)
(* session; the question bank and the evaluation cache are the process-wide *)
(* objects every session uses.  probe holds the store, the coroutines, the  *)
(* update_question_stats calls made so far, the last get_adaptive_question  *)
(* call and the session the last step worked for.  The sessions are         *)
(* followed through their first answers, while _should_continue_interview   *)
(* holds and the bank has a question left; every Redis write takes effect.  *)

InterviewIds == {"i1", "i2"}

\* answers that are evaluated, over the two sessions
MaxSessionAnswers == 3

SessionInterview ==
    [skill_level |-> "intermediate", max_questions |-> DefaultMaxQuestions]

SessionReplies == {UniformReply(40), UniformReply(90)}

SessionIdle ==
    [interview_id |-> "none", pc |-> "idle", state |-> <<>>,
     current_question |-> NoQuestion, answer |-> <<>>, difficulty |-> "none"]

NoUsage == [q \in QuestionIds |-> [calls |-> 0, score_sum |-> 0, passes |-> 0]]

SessionsProbe ==
    [store |-> [i \in InterviewIds |-> <<>>],
     co |-> [p \in Clients |-> SessionIdle],
     usage |-> NoUsage,
     selection |-> <<>>,
     last |-> "none"]

\* a request takes the first free slot
SessionMayBegin(p) ==
    /\ probe.co[p].pc = "idle"
    /\ (p = "c1") = (\A o \in Clients \ {p} : probe.co[o].pc = "idle")

RECURSIVE UsageCalls(_, _)
UsageCalls(usage, ids) ==
    IF ids = {} THEN 0
    ELSE LET q == CHOOSE x \in ids : TRUE
         IN  usage[q].calls + UsageCalls(usage, ids \ {q})

SessionAnswersTaken ==
    UsageCalls(probe.usage, QuestionIds)
        + Cardinality({p \in Clients : probe.co[p].pc = "evaluating"})

\* as Drawn: of the questions no session has touched, the first of a tier
SessionTouched(q) ==
    \/ questions[q].times_used > 0
    \/ \E i \in InterviewIds :
           /\ probe.store[i] # <<>>
           /\ q \in Range(probe.store[i][1].questions_asked)
    \/ \E p \in Clients :
           /\ probe.co[p].state # <<>>
           /\ q \in Range(probe.co[p].state[1].questions_asked)

SessionDrawn(candidates) ==
    {q \in candidates :
        \/ SessionTouched(q)
        \/ \A o \in candidates : (o[1] = q[1] /\ ~SessionTouched(o)) => o[2] >= q[2]}

\* the state dict the coroutine c works on: its own copy with Redis, the
\* stored object with the memory store
SessionStateOf(c) ==
    IF is_redis_available THEN c.state[1] ELSE probe.store[c.interview_id][1]

\* the coroutine c of slot p reaches an await with its state dict at s
SessionSuspend(pr, p, c, s, pc) ==
    [pr EXCEPT
        !.co[p] = [c EXCEPT !.pc = pc,
                            !.state = IF is_redis_available THEN <<s>> ELSE <<>>],
        !.store[c.interview_id] = IF is_redis_available THEN @ ELSE <<s>>,
        !.last = c.interview_id]

\* set_interview_state(s) and the return of the call
SessionSetStateAndReturn(pr, p, c, s) ==
    IF is_redis_available
    THEN SessionSuspend(pr, p, c, s, "storing")
    ELSE [pr EXCEPT !.store[c.interview_id] = <<s>>,
                    !.co[p] = SessionIdle,
                    !.last = c.interview_id]

\* _get_next_question(state) has been called for the session of c
SessionSelected(pr, c, state, candidates) ==
    [pr EXCEPT !.selection = <<[interview_id |-> c.interview_id,
                                current_difficulty |-> state.current_difficulty,
                                scores |-> state.scores,
                                questions_asked |-> state.questions_asked,
                                candidates |-> candidates]>>]

\* update_question_stats(question_id, score, ...) has been called
SessionUsed(pr, question_id, score) ==
    [pr EXCEPT !.usage[question_id] =
        [calls |-> @.calls + 1,
         score_sum |-> @.score_sum + score,
         passes |-> @.passes + B2I(score >= 6000)]]

\* start_interview, lines 50-72
SessionStartSelect(p, c, s0) ==
    LET first_question == _get_next_question(questions, s0)
        pr == SessionSelected(probe, c, s0, first_question)
    IN  IF first_question # {}
        THEN \E q \in SessionDrawn(first_question) :
                 probe' = SessionSetStateAndReturn(pr, p, c, AttachQuestion(s0, q))
        ELSE probe' = [pr EXCEPT
                 !.store[c.interview_id] = IF is_redis_available THEN @ ELSE <<s0>>,
                 !.co[p] = SessionIdle,
                 !.last = c.interview_id]

\* start_interview, lines 26-44; the routes create each interview id once
SessionStart(p, i) ==
    /\ SessionMayBegin(p)
    /\ probe.store[i] = <<>>
    /\ \A o \in Clients : probe.co[o].interview_id # i
    /\ LET c == [SessionIdle EXCEPT !.interview_id = i]
           s0 == initial_state(SessionInterview)
       IN  IF is_redis_available
           THEN probe' = SessionSuspend(probe, p, c, s0, "storing_initial")
           ELSE SessionStartSelect(p, c, s0)
    /\ UNCHANGED <<is_redis_available, interview_state, questions, evaluation_cache,
                   interview, calls, result, selected, setex_failures, outstanding,
                   time_limit_passed, provider_up>>

\* Redis: the first setex of start_interview takes effect
SessionStoreInitial(p) ==
    /\ probe.co[p].pc = "storing_initial"
    /\ probe' = [probe EXCEPT
           !.store[probe.co[p].interview_id] = probe.co[p].state,
           !.co[p].pc = "resume_start",
           !.last = probe.co[p].interview_id]
    /\ UNCHANGED <<is_redis_available, interview_state, questions, evaluation_cache,
                   interview, calls, result, selected, setex_failures, outstanding,
                   time_limit_passed, provider_up>>

\* Redis: start_interview resumes after its first set_interview_state
SessionResumeStart(p) ==
    /\ probe.co[p].pc = "resume_start"
    /\ SessionStartSelect(p, probe.co[p], probe.co[p].state[1])
    /\ UNCHANGED <<is_redis_available, interview_state, questions, evaluation_cache,
                   interview, calls, result, selected, setex_failures, outstanding,
                   time_limit_passed, provider_up>>

\* Redis: the setex of a call's last set_interview_state takes effect and
\* the call returns
SessionStoreWrite(p) ==
    /\ probe.co[p].pc = "storing"
    /\ probe' = [probe EXCEPT
           !.store[probe.co[p].interview_id] = probe.co[p].state,
           !.co[p] = SessionIdle,
           !.last = probe.co[p].interview_id]
    /\ UNCHANGED <<is_redis_available, interview_state, questions, evaluation_cache,
                   interview, calls, result, selected, setex_failures, outstanding,
                   time_limit_passed, provider_up>>

\* process_response, lines 99-159, from the evaluation to the next await
SessionAfterEvaluation(p, c, st, evaluation) ==
    LET recorded == RecordResponse(st, c.current_question, c.answer[1], evaluation)
        new_difficulty == _adjust_difficulty(recorded.scores, recorded.current_difficulty)
        adjusted == [recorded EXCEPT !.current_difficulty = new_difficulty]
        next_question == _get_next_question(questions, adjusted)
        pr == SessionSelected(
                  SessionUsed(probe, c.current_question, evaluation.overall_score),
                  c, adjusted, next_question)
    IN  /\ questions' = update_question_stats(questions, c.current_question,
                                              evaluation.overall_score)
        /\ _should_continue_interview(adjusted)
        /\ next_question # {}
        /\ \E q \in SessionDrawn(next_question) :
               probe' = SessionSetStateAndReturn(pr, p, c, AttachQuestion(adjusted, q))

\* process_response, lines 81-97, on the session i
SessionSubmit(p, i, answer) ==
    /\ SessionMayBegin(p)
    /\ SessionAnswersTaken < MaxSessionAnswers
    /\ probe.store[i] # <<>>
    /\ probe.store[i][1].current_question # NoQuestion
    /\ LET st == probe.store[i][1]
           c == [SessionIdle EXCEPT !.interview_id = i,
                                    !.current_question = st.current_question,
                                    !.answer = <<answer>>,
                                    !.difficulty = st.current_difficulty]
           before == EvaluateBeforeProvider(evaluation_cache, st.current_question,
                                            answer, st.current_difficulty)
       IN  IF before.how = "call"
           THEN /\ probe' = SessionSuspend(probe, p, c, st, "evaluating")
                /\ UNCHANGED questions
           ELSE SessionAfterEvaluation(p, c, st, before.evaluation)
    /\ UNCHANGED <<is_redis_available, interview_state, evaluation_cache,
                   interview, calls, result, selected, setex_failures, outstanding,
                   time_limit_passed, provider_up>>

\* evaluate_response, lines 80-101, and the rest of process_response
SessionProviderReturns(p, reply) ==
    /\ probe.co[p].pc = "evaluating"
    /\ LET c == probe.co[p]
           enhanced_evaluation == EvaluateAfterProvider(reply, c.answer[1], c.difficulty)
           key == _generate_cache_key(c.current_question, c.answer[1], c.difficulty)
       IN  /\ evaluation_cache' = CachePut(evaluation_cache, key, enhanced_evaluation)
           /\ SessionAfterEvaluation(p, c, SessionStateOf(c),
                  [enhanced_evaluation EXCEPT !.evaluation_method = "ai_enhanced"])
    /\ UNCHANGED <<is_redis_available, interview_state,
                   interview, calls, result, selected, setex_failures, outstanding,
                   time_limit_passed, provider_up>>

InitSessions ==
    /\ is_redis_available \in BOOLEAN
    /\ interview_state = <<>>
    /\ questions = _load_questions
    /\ evaluation_cache = {}
    /\ interview = <<>>
    /\ calls = [p \in Clients |-> IdleCall]
    /\ result = NoResult
    /\ selected = NoSelection
    /\ setex_failures = 0
    /\ outstanding = 2
    /\ time_limit_passed = FALSE
    /\ provider_up = TRUE
    /\ probe = SessionsProbe

NextSessions ==
    \/ \E p \in Clients, i \in InterviewIds : SessionStart(p, i)
    \/ \E p \in Clients : SessionStoreInitial(p)
    \/ \E p \in Clients : SessionResumeStart(p)
    \/ \E p \in Clients : SessionStoreWrite(p)
    \/ \E p \in Clients, i \in InterviewIds : SessionSubmit(p, i, TerseAnswer)
    \/ \E p \in Clients, reply \in SessionReplies : SessionProviderReturns(p, reply)

SpecSessions == InitSessions /\ [][NextSessions]_vars


----------------------------------------------------------------------------
(* The usage counters under concurrent submissions *)

\* the counters of a question after the update_question_stats calls counted
\* in u: times_used, the mean of the scores and the share of passing scores
CountersReflect(question, u) ==
    /\ question.times_used = u.calls
    /\ question.average_score =
           IF u.calls = 0 THEN <<>> ELSE <<Frac(u.score_sum, u.calls)>>
    /\ question.pass_rate =
           IF u.calls = 0 THEN <<>> ELSE <<Frac(100 * u.passes, u.calls)>>

\* C31: under any interleaving of concurrent submissions, of one session or
\* of different sessions, no usage update is lost: after n
\* update_question_stats calls for a question its times_used has grown by n
\* and its running average (and pass rate) reflect all n scores.
C31_NoUsageUpdateLost ==
    \A q \in QuestionIds : CountersReflect(questions[q], probe.usage[q])

\* a question for which usage has been recorded twice, once with a passing
\* and once with a failing score: by two calls that were in their evaluation
\* at the same time, or by two sessions at different difficulties
C31_Witness ==
    \E q \in QuestionIds :
        /\ probe.usage[q].calls = 2
        /\ probe.usage[q].passes = 1
        /\ questions[q].times_used = 2


----------------------------------------------------------------------------
(* The usage counters of a question.  process_response records a response   *)
(* and counts it in one block without an await (lines 99-125); here that    *)
(* block is applied again and again, to two questions and to scores on      *)
(* both sides of the pass threshold.  probe.responses holds the response    *)
(* records appended so far.                                                 *)

\* response records followed
MaxUsageCalls == 5

UsageQuestions == {<<"basic", 1>>, <<"basic", 2>>}
UsageScores == {3333, 5999, 6000, 10000}

\* process_response, lines 99-125: the response record is appended and
\* update_question_stats is called with its question and its overall_score
RecordAndCount(question_id, overall_score) ==
    /\ Len(probe.responses) < MaxUsageCalls
    /\ probe' = [probe EXCEPT !.responses =
                    Append(@, [question_id |-> question_id,
                               overall_score |-> overall_score])]
    /\ questions' = update_question_stats(questions, question_id, overall_score)
    /\ UNCHANGED <<is_redis_available, interview_state, evaluation_cache,
                   interview, calls, result, selected, setex_failures, outstanding,
                   time_limit_passed, provider_up>>

InitUsage ==
    /\ is_redis_available = FALSE
    /\ interview_state = <<>>
    /\ questions = _load_questions
    /\ evaluation_cache = {}
    /\ interview = <<>>
    /\ calls = [p \in Clients |-> IdleCall]
    /\ result = NoResult
    /\ selected = NoSelection
    /\ setex_failures = 0
    /\ outstanding = 1
    /\ time_limit_passed = FALSE
    /\ provider_up = TRUE
    /\ probe = [responses |-> <<>>]

NextUsage ==
    \E q \in UsageQuestions, s \in UsageScores : RecordAndCount(q, s)

SpecUsage == InitUsage /\ [][NextUsage]_vars

\* the scores of the response records of question q, in their order
RECURSIVE ScoresFor(_, _)
ScoresFor(responses, q) ==
    IF responses = <<>> THEN <<>>
    ELSE LET rest == ScoresFor(Tail(responses), q)
         IN  IF Head(responses).question_id = q
             THEN <<Head(responses).overall_score>> \o rest
             ELSE rest

RECURSIVE PassesIn(_)
PassesIn(scores) ==
    IF scores = <<>> THEN 0
    ELSE B2I(Head(scores) >= 6000) + PassesIn(Tail(scores))

\* C32: after n update_usage_stats calls on a question with the scores
\* s1..sn, times_used = n, average_score is the arithmetic mean of s1..sn and
\* pass_rate is 100 times the number of scores >= 60 divided by n; the
\* counters are updated once for each response recorded, so n is the number
\* of response records of the question and s1..sn are their scores.
C32_UsageStatistics ==
    \A q \in QuestionIds :
        LET scores == ScoresFor(probe.responses, q)
            n == Len(scores)
        IN  /\ questions[q].times_used = n
            /\ n = 0 => /\ questions[q].average_score = <<>>
                        /\ questions[q].pass_rate = <<>>
            /\ n > 0 => /\ questions[q].average_score # <<>>
                        /\ questions[q].average_score[1].num * n
                               = Sum(scores) * questions[q].average_score[1].den
                        /\ questions[q].pass_rate # <<>>
                        /\ questions[q].pass_rate[1].num * n
                               = 100 * PassesIn(scores) * questions[q].pass_rate[1].den

\* a question with four response records, passing and failing ones, whose
\* mean is no whole number of hundredths
C32_Witness ==
    \E q \in UsageQuestions :
        /\ questions[q].times_used = 4
        /\ PassesIn(ScoresFor(probe.responses, q)) \in {1, 2, 3}
        /\ questions[q].average_score[1].den > 1
        /\ questions[q].pass_rate[1].den = 1


----------------------------------------------------------------------------
(* The narrative of a final assessment *)

\* C33: the detailed_feedback of every final assessment is a non-empty text
\* whatever the provider does for the narrative call: when the call raises
\* or returns empty or whitespace-only text, the score-band template is
\* substituted.
C33_FeedbackNeverBlank ==
    (probe.fn = "generate_final_assessment" /\ probe.assessment # <<>>) =>
        /\ probe.assessment[1].detailed_feedback # ""
        /\ (probe.responses # <<>> /\ probe.narrative \in {"raise", "blank"}) =>
               probe.assessment[1].detailed_feedback =
                   _get_default_feedback(probe.assessment[1].overall_score)


----------------------------------------------------------------------------
(* services/feedback_engine.py: the recommendations of a final assessment.  *)
(* _generate_recommendations is called on its own with a stats dict and a   *)
(* category analysis around its thresholds, and generate_final_assessment   *)
(* (lines 29-76) is followed from a response list to the statistics, the    *)
(* hire recommendation and the recommendations.  A recommendation is named  *)
(* by its rule.                                                              *)

\* _analyze_category_performance, lines 173-189: question_categories
question_categories(question_id) ==
    CASE question_id \in {<<"basic", 1>>, <<"basic", 5>>} -> "Basic Functions"
      [] question_id = <<"basic", 2>> -> "Pivot Tables"
      [] question_id \in {<<"basic", 3>>, <<"intermediate", 2>>} -> "Lookup Functions"
      [] question_id \in {<<"basic", 4>>, <<"intermediate", 1>>, <<"intermediate", 3>>,
                          <<"intermediate", 4>>, <<"advanced", 3>>} -> "Data Manipulation"
      [] question_id = <<"intermediate", 5>> -> "Conditional Logic"
      [] question_id = <<"advanced", 1>> -> "Statistical Analysis"
      [] question_id = <<"advanced", 2>> -> "Financial Modeling"
      [] question_id = <<"advanced", 4>> -> "Advanced Functions"
      [] question_id = <<"advanced", 5>> -> "Automation"
      [] OTHER -> "General"

\* the keys of category_scores in their insertion order
RECURSIVE CategoryKeys(_, _)
CategoryKeys(responses, seen) ==
    IF responses = <<>> THEN seen
    ELSE LET category == question_categories(Head(responses).question_id)
         IN  CategoryKeys(Tail(responses),
                 IF category \in Range(seen) THEN seen ELSE Append(seen, category))

\* category_scores[category]
RECURSIVE CategoryScores(_, _)
CategoryScores(responses, category) ==
    IF responses = <<>> THEN <<>>
    ELSE LET rest == CategoryScores(Tail(responses), category)
         IN  IF question_categories(Head(responses).question_id) = category
             THEN <<Head(responses).evaluation.overall_score>> \o rest
             ELSE rest

RECURSIVE SelectBelow(_, _, _)
SelectBelow(keys, responses, threshold) ==
    IF keys = <<>> THEN <<>>
    ELSE LET scores == CategoryScores(responses, Head(keys))
             rest == SelectBelow(Tail(keys), responses, threshold)
         IN  IF RoundHalfEven(Sum(scores), Len(scores)) < threshold
             THEN <<Head(keys)>> \o rest
             ELSE rest

\* _analyze_category_performance: categories_needing_improvement, the
\* categories whose round(mean, 2) is below 60
_analyze_category_performance(responses) ==
    [categories_needing_improvement |->
         SelectBelow(CategoryKeys(responses, <<>>), responses, 6000)]

\* round(mean of the dimension over the responses, 2), in hundredths
DimensionAverage(responses, dimension) ==
    RoundHalfEven(100 * Sum([i \in DOMAIN responses |->
                                responses[i].evaluation[dimension]]),
                  Len(responses))

\* the stats dict as _generate_recommendations reads it
RecommendationStats(responses) ==
    [overall_score |-> StatsOverallScore(responses),
     technical_accuracy |-> DimensionAverage(responses, "technical_accuracy"),
     communication_clarity |-> DimensionAverage(responses, "communication_clarity"),
     consistency_at_least_60 |-> ConsistencyAtLeast(responses, 60)]

RECURSIVE CategoryRecommendations(_)
CategoryRecommendations(weak_categories) ==
    IF weak_categories = <<>> THEN <<>>
    ELSE LET category == Head(weak_categories)
             rest == CategoryRecommendations(Tail(weak_categories))
         IN  IF category \in {"Lookup Functions", "Pivot Tables",
                              "Data Manipulation", "Advanced Functions"}
             THEN <<category>> \o rest
             ELSE rest

\* lines 329-355: the list before it is cut
TriggeredRecommendations(category_analysis, stats) ==
    (IF stats.overall_score < 7000 THEN <<"fundamentals">> ELSE <<>>)
    \o (IF stats.technical_accuracy < 6000 THEN <<"formula_syntax">> ELSE <<>>)
    \o (IF stats.communication_clarity < 6000 THEN <<"explain_clearly">> ELSE <<>>)
    \o CategoryRecommendations(category_analysis.categories_needing_improvement)
    \o (IF ~stats.consistency_at_least_60 THEN <<"consistency">> ELSE <<>>)

\* a _generate_recommendations that returns every recommendation triggered
all_recommendations(category_analysis, stats) ==
    LET recommendations == TriggeredRecommendations(category_analysis, stats)
    IN  IF recommendations # <<>> THEN recommendations
        ELSE <<"continue_practicing">>

\* _generate_recommendations, lines 323-358
_generate_recommendations(category_analysis, stats) ==
    LET recommendations == TriggeredRecommendations(category_analysis, stats)
    IN  IF recommendations # <<>>
        THEN SubSeq(recommendations, 1, Min(5, Len(recommendations)))
        ELSE <<"continue_practicing">>

\* responses a list is made of
MaxAssessed == 4

\* the categories a category analysis may name: the four that have a
\* recommendation and one that has none
ProbedCategories ==
    {"Lookup Functions", "Pivot Tables", "Data Manipulation", "Advanced Functions",
     "Conditional Logic"}

\* categories_needing_improvement is made from the keys of a dict: no
\* category twice
CategoryLists ==
    {s \in UNION {[1 .. n -> ProbedCategories] : n \in 0 .. Cardinality(ProbedCategories)} :
        NoSeqDuplicates(s)}

RecommendationProbes ==
    [fn : {"_generate_recommendations"},
     overall_score : {6999, 7000},
     technical_accuracy : {5999, 6000},
     communication_clarity : {5999, 6000},
     consistency_at_least_60 : BOOLEAN,
     categories_needing_improvement : CategoryLists,
     recommendations : {<<>>}]

\* a response as process_response records it, to question_id, scored n by
\* the provider
AssessedResponse(question_id, n) ==
    [question_id |-> question_id,
     candidate_response |-> TerseAnswer.text,
     evaluation |-> [EvaluateAfterProvider(UniformReply(n), TerseAnswer, question_id[1])
                        EXCEPT !.evaluation_method = "ai_enhanced"]]

AssessedResponses ==
    {AssessedResponse(q, n) :
        q \in {<<"basic", 2>>, <<"basic", 3>>, <<"basic", 4>>, <<"advanced", 4>>},
        n \in {20, 100}}

AssessedLists == UNION {[1 .. n -> AssessedResponses] : n \in 0 .. MaxAssessed}

FeedbackProbes ==
    [fn : {"generate_final_assessment"}, responses : AssessedLists,
     assessment : {<<>>}]

GenerateRecommendations ==
    /\ probe.fn = "_generate_recommendations"
    /\ probe.recommendations = <<>>
    /\ probe' = [probe EXCEPT !.recommendations =
                    _generate_recommendations(
                        [categories_needing_improvement |->
                             probe.categories_needing_improvement],
                        [overall_score |-> probe.overall_score,
                         technical_accuracy |-> probe.technical_accuracy,
                         communication_clarity |-> probe.communication_clarity,
                         consistency_at_least_60 |-> probe.consistency_at_least_60])]
    /\ UNCHANGED <<is_redis_available, interview_state, questions, evaluation_cache,
                   interview, calls, result, selected, setex_failures, outstanding,
                   time_limit_passed, provider_up>>

\* generate_final_assessment, lines 29-76: the default assessment for an
\* empty list, otherwise the statistics and what is made from them
AssessResponses ==
    /\ probe.fn = "generate_final_assessment"
    /\ probe.assessment = <<>>
    /\ probe' = [probe EXCEPT !.assessment =
           IF probe.responses = <<>>
           THEN <<[overall_score |-> 0,
                   hire_recommendation |-> "no_hire",
                   consistency_in_75_100 |-> FALSE,
                   recommendations |-> <<"complete_technical_assessment">>]>>
           ELSE LET stats == _calculate_performance_statistics(probe.responses)
                    overall_score == StatsOverallScore(probe.responses)
                IN  <<[overall_score |-> overall_score,
                       hire_recommendation |->
                           _determine_hire_recommendation(overall_score, stats),
                       consistency_in_75_100 |->
                           /\ ConsistencyAtLeast(probe.responses, 75)
                           /\ ~ConsistencyAtLeast(probe.responses, 101),
                       recommendations |->
                           _generate_recommendations(
                               _analyze_category_performance(probe.responses),
                               RecommendationStats(probe.responses))]>>]
    /\ UNCHANGED <<is_redis_available, interview_state, questions, evaluation_cache,
                   interview, calls, result, selected, setex_failures, outstanding,
                   time_limit_passed, provider_up>>

InitFeedback ==
    /\ is_redis_available = FALSE
    /\ interview_state = <<>>
    /\ questions = _load_questions
    /\ evaluation_cache = {}
    /\ interview = <<>>
    /\ calls = [p \in Clients |-> IdleCall]
    /\ result = NoResult
    /\ selected = NoSelection
    /\ setex_failures = 0
    /\ outstanding = 1
    /\ time_limit_passed = FALSE
    /\ provider_up = TRUE
    /\ probe \in RecommendationProbes \cup FeedbackProbes

NextFeedback ==
    \/ GenerateRecommendations
    \/ AssessResponses

SpecFeedback == InitFeedback /\ [][NextFeedback]_vars

\* the recommendations a call has returned
ReturnedRecommendations ==
    IF probe.fn = "_generate_recommendations" THEN probe.recommendations
    ELSE IF probe.assessment = <<>> THEN <<>>
    ELSE probe.assessment[1].recommendations

\* C34: the recommendations list of every final assessment has between 1 and
\* 5 items and contains no item twice, for every combination of overall
\* score, dimension averages, consistency and categories below the 60-point
\* threshold.
C34_RecommendationsBounded ==
    ReturnedRecommendations # <<>> =>
        /\ Len(ReturnedRecommendations) \in 1 .. 5
        /\ NoSeqDuplicates(ReturnedRecommendations)

\* eight recommendations are triggered and five are returned; a list with
\* nothing triggered returns the one standing recommendation
C34_Witness ==
    /\ probe.fn = "_generate_recommendations"
    /\ probe.overall_score < 7000
    /\ probe.technical_accuracy < 6000
    /\ probe.communication_clarity < 6000
    /\ ~probe.consistency_at_least_60
    /\ Len(probe.categories_needing_improvement) = 5
    /\ Len(probe.recommendations) = 5


\* C39: for every non-empty evaluation list the aggregator's consistency
\* lies in 75..100, so the consistency conditions of the hire rule and the
\* low-consistency recommendation never change an outcome: the hire
\* recommendation of a non-empty assessment follows from overall_score alone
\* with the thresholds 85, 75, 60 and 40.
C39_ConsistencyNeverDecides ==
    (/\ probe.fn = "generate_final_assessment"
     /\ probe.responses # <<>>
     /\ probe.assessment # <<>>) =>
        LET assessment == probe.assessment[1]
            overall_score == assessment.overall_score
        IN  /\ assessment.consistency_in_75_100
            /\ \A c \in ConsistencyThresholds : ConsistencyAtLeast(probe.responses, c)
            /\ "consistency" \notin Range(assessment.recommendations)
            /\ assessment.hire_recommendation =
                   (IF overall_score >= 8500 THEN "strong_hire"
                    ELSE IF overall_score >= 7500 THEN "hire"
                    ELSE IF overall_score >= 6000 THEN "conditional_hire"
                    ELSE IF overall_score >= 4000 THEN "no_hire"
                    ELSE "strong_no_hire")

\* an assessment of answers more than 50 points apart whose mean earns a
\* hire recommendation
C39_Witness ==
    /\ probe.fn = "generate_final_assessment"
    /\ probe.assessment # <<>>
    /\ \E i, j \in DOMAIN probe.responses :
           probe.responses[i].evaluation.overall_score
               > probe.responses[j].evaluation.overall_score + 5000
    /\ probe.assessment[1].hire_recommendation \in {"hire", "conditional_hire"}


----------------------------------------------------------------------------
(* Sessions side by side *)

\* a step leaves the stored state of every session it does not work for
OtherSessionsKept ==
    \A i \in InterviewIds :
        i # probe'.last => probe'.store[i] = probe.store[i]

\* the questions _get_next_question draws from, computed from the three
\* fields of the session's own state and the bank as it was loaded
OwnSelection(selection) ==
    _get_next_question(_load_questions,
        [initial_state(SessionInterview) EXCEPT
            !.current_difficulty = selection.current_difficulty,
            !.scores = selection.scores,
            !.questions_asked = selection.questions_asked])

SelectionIsOwn ==
    probe.selection # <<>> =>
        probe.selection[1].candidates = OwnSelection(probe.selection[1])

\* C35: an operation on one session never changes another session's
\* persisted state, and the question selected for a session depends only on
\* that session's own current_difficulty, scores and questions_asked, under
\* sequential and under interleaved execution of operations on distinct
\* sessions.
C35_SessionsIsolated ==
    /\ [][OtherSessionsKept]_vars
    /\ []SelectionIsOwn

\* a question is selected for one session after the other session has
\* answered a question this one has not been asked, while a call of the
\* other session is in flight
C35_Witness ==
    /\ probe.selection # <<>>
    /\ probe.last = probe.selection[1].interview_id
    /\ \E i \in InterviewIds \ {probe.last} :
           /\ probe.store[i] # <<>>
           /\ probe.store[i][1].responses # <<>>
           /\ \E q \in Range(probe.store[i][1].questions_asked) :
                  /\ questions[q].times_used > 0
                  /\ q \notin Range(probe.selection[1].questions_asked)
                  /\ q \in probe.selection[1].candidates
           /\ \E p \in Clients :
                  /\ probe.co[p].interview_id = i
                  /\ probe.co[p].pc # "idle"


----------------------------------------------------------------------------
(* The per-answer records of a session *)

\* the question ids of the response records, in their order
AnsweredIds(state) ==
    [i \in DOMAIN state.responses |-> state.responses[i].question_id]

\* C36: within one session no question id appears in more than one response
\* record: each attached question is answered at most once, after any
\* sequence or interleaving of submissions, those sent after completion or
\* while another submission is in flight included.
C36_NoQuestionAnsweredTwice ==
    Stored => NoSeqDuplicates(AnsweredIds(StoredState))


\* the selection that attached the question had to leave its target tier
FellBack(question) == selected.found /\ question[1] # selected.target

\* C37: the difficulty passed to the evaluator for an answer, the session's
\* stored current_difficulty, equals the tier of the question being
\* answered, unless the selector had to fall back to another tier because
\* the target tier had no unasked active question.
C37_EvaluatedAtQuestionTier ==
    \A p \in Clients :
        (calls[p].op = "process_response" /\ calls[p].pc = "evaluating")
            => \/ calls[p].difficulty = calls[p].current_question[1]
               \/ FellBack(calls[p].current_question)


\* C38: every session stored with status in_progress has a current_question:
\* when start_interview has returned, with an error too, no session is left
\* in the store as in_progress without a question and with an empty
\* questions_asked list.
C38_InProgressHasQuestion ==
    (/\ Stored
     /\ StoredState.status = "in_progress"
     /\ \A p \in Clients : calls[p].op # "start_interview")
        => /\ StoredState.current_question # NoQuestion
           /\ StoredState.questions_asked # <<>>


\* the per-answer lists of a state dict agree with each other
InLockstep(state) ==
    /\ Len(state.scores) = Len(state.responses)
    /\ state.current_question_index = Len(state.responses)
    /\ \A i \in DOMAIN state.responses :
           state.scores[i] = state.responses[i].evaluation.overall_score
    /\ Len(state.conversation_history) = 3 * Len(state.responses)
    /\ Len(state.responses) <= Len(state.questions_asked)
    /\ Len(state.questions_asked) <= Len(state.responses) + 1

\* C40: in every reachable state of a session whose status is in_progress or
\* paused, the per-answer lists stay in lockstep: len(scores) =
\* len(responses) = current_question_index, scores[i] is the overall_score
\* of responses[i], len(conversation_history) = 3 * len(responses), and
\* len(responses) <= len(questions_asked) <= len(responses) + 1.
C40_ListsInLockstep ==
    (Stored /\ StoredState.status \in {"in_progress", "paused"})
        => InLockstep(StoredState)

\* a paused session that has recorded two answers while its clients keep
\* two requests outstanding
C40_Witness ==
    /\ Stored
    /\ StoredState.status = "paused"
    /\ outstanding = 2
    /\ Len(StoredState.responses) >= 2
    /\ Len(StoredState.questions_asked) = Len(StoredState.responses) + 1

====
